---- MODULE Spec2Model ----
(***************************************************************************)
(* State-machine model of the RuthApp frontend:                            *)
(*   - the shared axios client and its 401 token-refresh interceptor       *)
(*     (frontend/src/services/api.js),                                     *)
(*   - the three step wizards (WritingProfileWizard, LetterWizard,         *)
(*     VoiceProfileWizard),                                                *)
(*   - the letters page filter (LettersPage.filterLetters).                *)
(* Every React event handler is one action; an async handler is split at   *)
(* each await into the part before the request and one action per outcome  *)
(* of the request.                                                         *)
(***************************************************************************)
EXTENDS Integers, Sequences, FiniteSets, TLC

\* ------------------------------------------------------------------ bounds
NumReq == 2          \* original requests issued through the api client
MaxTok == 2          \* distinct token values the backend may issue
MaxCount == 4        \* saturation point of the history counters

NULL == 0            \* localStorage.getItem of an absent key / undefined

Reqs == 1..NumReq
Tokens == 1..MaxTok

Sat(n) == IF n < MaxCount THEN n + 1 ELSE MaxCount

VARIABLES
  localStorage,   \* [access_token, refresh_token]: browser local storage
  location,       \* window.location.href
  req,            \* per original request: axios config + promise state
  \* --- the mounted wizard component (useState cells and props)
  wizard,              \* "none" | "profile" | "letter" | "voice"
  editMode,            \* prop editMode
  existingProfile,     \* prop existingProfile (id = NULL when null)
  currentStep,
  loading,
  error,
  formData,
  aiDescriptions,
  selectedDescription,
  generatingLetters,   \* LetterWizard only
  writingProfiles,     \* LetterWizard only
  savedReps,           \* LetterWizard only
  net,                 \* requests of the wizard awaiting their response
  parent,              \* which of the props onSuccess / onClose were called
  \* --- LettersPage (useState cells)
  letters,
  filteredLetters,
  searchTerm,
  selectedRepFilter,
  statusFilter,
  page,                \* [loading, error, success, togglingStatus, sent]
  pageNet,             \* requests of the page awaiting their response
  server,              \* the letters held by the backend
  \* --- WritingProfilesPage
  profiles,
  wpPage,              \* [loading, error, success, confirmDeleteProfile, sent]
  profileStore,        \* the writing profiles held by the backend
  \* --- the app shell: auth store, router, theme store, install prompt
  isAuthenticated,     \* useAuthStore state
  path,                \* pathname of the router's location
  screen,              \* the element <Routes> rendered last
  darkMode,            \* useThemeStore state
  classDark,           \* document.documentElement has the class 'dark'
  installPrompt,       \* useState cells of InstallPrompt
  device,              \* [userAgent, isStandalone] of the browser
  \* --- the certificate renewal script
  renewal              \* one run: its inputs, shell variables and exit

apiVars == <<localStorage, location, req>>

wizVars == <<wizard, editMode, existingProfile, currentStep, loading, error,
             formData, aiDescriptions, selectedDescription, generatingLetters,
             writingProfiles, savedReps, net, parent>>

profVars == <<profiles, wpPage, profileStore>>

shellVars == <<isAuthenticated, path, screen, darkMode, classDark,
               installPrompt, device>>

pageVars == <<letters, filteredLetters, searchTerm, selectedRepFilter,
              statusFilter, page, pageNet, server, profVars, shellVars,
              renewal>>

vars == <<localStorage, location, req,
          wizard, editMode, existingProfile, currentStep, loading, error,
          formData, aiDescriptions, selectedDescription, generatingLetters,
          writingProfiles, savedReps, net, parent,
          letters, filteredLetters, searchTerm, selectedRepFilter,
          statusFilter, page, pageNet, server,
          profiles, wpPage, profileStore,
          isAuthenticated, path, screen, darkMode, classDark,
          installPrompt, device, renewal>>

\* --------------------------------------------------------- JS string model
\* A string is the sequence of its characters; "" is <<>>.
Truthy(s) == s # <<>>

\* Mutant: validation reads the text without trimming it.
Trim_Identity(s) == s

RECURSIVE TrimLeft(_)
TrimLeft(s) == IF s # <<>> /\ Head(s) = " " THEN TrimLeft(Tail(s)) ELSE s

RECURSIVE TrimRight(_)
TrimRight(s) ==
  IF s # <<>> /\ s[Len(s)] = " " THEN TrimRight(SubSeq(s, 1, Len(s) - 1)) ELSE s

\* String.prototype.trim
Trim(s) == TrimRight(TrimLeft(s))

\* ------------------------------------------------- services/api.js: client
\* An original request before the caller has invoked api.get/post/... .
\* phase: idle -> queued -> sent -> (refreshing -> sent)? -> resolved | rejected
NewRequest ==
  [phase |-> "idle", retry |-> FALSE, Authorization |-> NULL,
   sends |-> 0, refreshCalls |-> 0,
   statuses |-> <<>>, rejectedWith |-> "none"]

ApiInit ==
  /\ localStorage \in [access_token : Tokens, refresh_token : Tokens]
  /\ location = "/app"
  /\ req = [r \in Reqs |-> NewRequest]

\* A caller invokes one of the api.* functions: the request enters the
\* interceptor chain (axios runs request interceptors in a later microtask).
Call(r) ==
  /\ req[r].phase = "idle"
  /\ req' = [req EXCEPT ![r].phase = "queued"]
  /\ UNCHANGED <<localStorage, location>>
  /\ UNCHANGED <<wizVars, pageVars>>

\* api.interceptors.request.use: attach the stored access token, then the
\* request goes on the wire.
requestInterceptor(r) ==
  /\ req[r].phase = "queued"
  /\ LET token == localStorage.access_token
     IN req' = [req EXCEPT ![r].phase = "sent",
                           ![r].Authorization =
                              IF token # NULL THEN token ELSE @,
                           ![r].sends = Sat(@)]
  /\ UNCHANGED <<localStorage, location>>
  /\ UNCHANGED <<wizVars, pageVars>>

\* api.interceptors.response.use, fulfilled branch: (response) => response
responseFulfilled(r) ==
  /\ req[r].phase = "sent"
  /\ req' = [req EXCEPT ![r].phase = "resolved",
                        ![r].statuses = Append(@, 200)]
  /\ UNCHANGED <<localStorage, location>>
  /\ UNCHANGED <<wizVars, pageVars>>

\* Mutant: the _retry flag is not consulted, every 401 starts a refresh.
ShouldRefresh_IgnoresRetryFlag(status, retried) == status = 401

\* Should the rejected branch start a refresh?  (line 25)
ShouldRefresh(status, retried) == status = 401 /\ ~retried

\* Mutant: a request that gets 401 while another request's refresh call is
\* in flight does not start its own but is re-sent with the shared result.
responseRejected_SharedRefresh(r, status) ==
  /\ req[r].phase = "sent"
  /\ IF ShouldRefresh(status, req[r].retry)
       THEN IF \E q \in Reqs \ {r} : req[q].phase = "refreshing"
              THEN req' = [req EXCEPT ![r].retry = TRUE,
                                      ![r].phase = "queued",
                                      ![r].statuses = Append(@, status)]
              ELSE req' = [req EXCEPT ![r].retry = TRUE,
                                      ![r].phase = "refreshing",
                                      ![r].refreshCalls = Sat(@),
                                      ![r].statuses = Append(@, status)]
       ELSE req' = [req EXCEPT ![r].phase = "rejected",
                               ![r].rejectedWith = "error",
                               ![r].statuses = Append(@, status)]
  /\ UNCHANGED <<localStorage, location>>
  /\ UNCHANGED <<wizVars, pageVars>>

\* api.interceptors.response.use, rejected branch up to the await of the
\* refresh call.  status 0 stands for an error without a response.
responseRejected(r, status) ==
  /\ req[r].phase = "sent"
  /\ IF ShouldRefresh(status, req[r].retry)
       THEN req' = [req EXCEPT ![r].retry = TRUE,
                               ![r].phase = "refreshing",
                               ![r].refreshCalls = Sat(@),
                               ![r].statuses = Append(@, status)]
       ELSE req' = [req EXCEPT ![r].phase = "rejected",
                               ![r].rejectedWith = "error",
                               ![r].statuses = Append(@, status)]
  /\ UNCHANGED <<localStorage, location>>
  /\ UNCHANGED <<wizVars, pageVars>>

\* Mutant: refresh_token is stored whether or not the response has one.
refreshSucceeded_AlwaysStoresRefresh(r, access_token, new_refresh_token) ==
  /\ req[r].phase = "refreshing"
  /\ localStorage' =
       [localStorage EXCEPT !.access_token = access_token,
                            !.refresh_token = new_refresh_token]
  /\ req' = [req EXCEPT ![r].Authorization = access_token,
                        ![r].phase = "sent",
                        ![r].sends = Sat(@)]
  /\ UNCHANGED location
  /\ UNCHANGED <<wizVars, pageVars>>

\* The refresh call (plain axios.post, outside the api instance) succeeded:
\* store the tokens (lines 35-39), set the header (line 40) and re-send
\* through api(originalRequest) (line 41).  The re-send runs the request
\* interceptor (lines 11-17) and puts the request on the wire in the
\* microtasks of this same task, before any other response is handled.
refreshSucceeded(r, access_token, new_refresh_token) ==
  /\ req[r].phase = "refreshing"
  /\ localStorage' =
       [localStorage EXCEPT
          !.access_token = access_token,
          !.refresh_token = IF new_refresh_token # NULL
                              THEN new_refresh_token
                              ELSE localStorage.refresh_token]
  /\ LET token == localStorage'.access_token
     IN req' = [req EXCEPT ![r].Authorization =
                              IF token # NULL THEN token ELSE access_token,
                           ![r].phase = "sent",
                           ![r].sends = Sat(@)]
  /\ UNCHANGED location
  /\ UNCHANGED <<wizVars, pageVars>>

\* Mutant: the catch branch forgets to remove refresh_token.
refreshFailed_KeepsRefreshToken(r) ==
  /\ req[r].phase = "refreshing"
  /\ localStorage' = [localStorage EXCEPT !.access_token = NULL]
  /\ location' = "/login"
  /\ req' = [req EXCEPT ![r].phase = "rejected",
                        ![r].rejectedWith = "refreshError"]
  /\ UNCHANGED <<wizVars, pageVars>>

\* The refresh call failed: catch (refreshError) branch.
refreshFailed(r) ==
  /\ req[r].phase = "refreshing"
  /\ localStorage' = [localStorage EXCEPT !.access_token = NULL,
                                          !.refresh_token = NULL]
  /\ location' = "/login"
  /\ req' = [req EXCEPT ![r].phase = "rejected",
                        ![r].rejectedWith = "refreshError"]
  /\ UNCHANGED <<wizVars, pageVars>>

ErrorStatuses == {0, 401, 500}

ApiNext ==
  \/ \E r \in Reqs : Call(r)
  \/ \E r \in Reqs : requestInterceptor(r)
  \/ \E r \in Reqs : responseFulfilled(r)
  \/ \E r \in Reqs, status \in ErrorStatuses : responseRejected(r, status)
  \/ \E r \in Reqs, at \in Tokens, nrt \in Tokens \cup {NULL} :
        refreshSucceeded(r, at, nrt)
  \/ \E r \in Reqs : refreshFailed(r)

\* ------------------------------------------- App.jsx, Layout.jsx: app shell
\* localStorage.setItem(k, v)
setItem(ls, k, v) == [x \in DOMAIN ls \cup {k} |-> IF x = k THEN v ELSE ls[x]]

\* Mutant: any stored string counts as true.
getItemIsTrue_AnyValue(ls, k) == k \in DOMAIN ls

\* localStorage.getItem(k) === 'true'
getItemIsTrue(ls, k) == k \in DOMAIN ls /\ ls[k] = "true"

\* Boolean.prototype.toString
toString(b) == IF b THEN "true" ELSE "false"

\* Ids of letters that occur in a URL.
LetterIds == {"7"}

PublicPaths == {"/login", "/register", "/terms", "/privacy"}

ProtectedPaths ==
  {"/", "/representatives", "/profile", "/writing-profiles",
   "/letters/new", "/letters"}
    \cup {"/letters/" \o id : id \in LetterIds}
    \cup {"/letters/" \o id \o "/delivery" : id \in LetterIds}

\* The URLs a user can open: every route and one that matches none.
Paths == PublicPaths \cup ProtectedPaths \cup {"/nowhere"}

Page(name) == [element |-> name, to |-> "", layout |-> FALSE]

\* <Navigate to=... replace />
Navigate(to) == [element |-> "Navigate", to |-> to, layout |-> FALSE]

\* <Layout /> with the matched child route in its <Outlet />
InLayout(name) == [element |-> name, to |-> "", layout |-> TRUE]

\* Mutant: the children are rendered whatever the auth store says.
PrivateRoute_AlwaysChildren(auth, children) == children

\* components/PrivateRoute.jsx
PrivateRoute(auth, children) ==
  IF auth THEN children ELSE Navigate("/login")

\* The <Routes> table of App.jsx: the element rendered for a pathname.
RouteElement(p, auth) ==
  CASE p = "/login" -> Page("LoginPage")
    [] p = "/register" -> Page("RegisterPage")
    [] p = "/terms" -> Page("TermsOfServicePage")
    [] p = "/privacy" -> Page("PrivacyPolicyPage")
    [] p = "/" -> PrivateRoute(auth, InLayout("DashboardPage"))
    [] p = "/representatives" ->
         PrivateRoute(auth, InLayout("RepresentativesPage"))
    [] p = "/profile" -> PrivateRoute(auth, InLayout("ProfilePage"))
    [] p = "/writing-profiles" ->
         PrivateRoute(auth, InLayout("WritingProfilesPage"))
    [] p = "/letters/new" -> PrivateRoute(auth, InLayout("NewLetterPage"))
    [] p = "/letters" -> PrivateRoute(auth, InLayout("LettersPage"))
    [] \E id \in LetterIds : p = "/letters/" \o id ->
         PrivateRoute(auth, InLayout("LetterDetailPage"))
    [] \E id \in LetterIds : p = "/letters/" \o id \o "/delivery" ->
         PrivateRoute(auth, InLayout("DeliveryPage"))
    [] OTHER -> Navigate("/")

\* The browsers the app runs in: navigator.userAgent and display mode.
Devices ==
  [userAgent : {"iphone", "android", "desktop"}, isStandalone : BOOLEAN]

\* InstallPrompt's useState initial values; userChoice is the promise
\* deferredPrompt.userChoice: "none", "pending", or "stale" when the
\* component that awaits it has been unmounted.
NoPrompt ==
  [deferredPrompt |-> FALSE, showPrompt |-> FALSE, isIOS |-> FALSE,
   isAndroid |-> FALSE, listening |-> FALSE, timer |-> FALSE,
   userChoice |-> "none"]

\* InstallPrompt's mount effect (lines 129-182).
InstallPromptMount(ls, dev, old) ==
  LET fresh == [NoPrompt EXCEPT !.userChoice = old.userChoice]
      iOS == dev.userAgent = "iphone"
      android == dev.userAgent = "android"
  IN IF dev.isStandalone THEN fresh
     ELSE IF "installPromptDismissed" \in DOMAIN ls THEN fresh
     ELSE [fresh EXCEPT !.isIOS = iOS, !.isAndroid = android,
                        !.listening = iOS \/ android, !.timer = iOS]

\* InstallPrompt unmounted: listener removed, timer cleared, state gone; a
\* pending userChoice promise stays pending.
InstallPromptUnmount(old) ==
  [NoPrompt EXCEPT !.userChoice =
     IF old.userChoice = "none" THEN "none" ELSE "stale"]

\* A render of <Routes> for pathname p, with the mount effects of Layout
\* (initializeDarkMode, InstallPrompt) when Layout appears and the cleanups
\* when it disappears.  ls is the local storage the effects read.
Render(p, auth, ls) ==
  /\ path' = p
  /\ isAuthenticated' = auth
  /\ screen' = RouteElement(p, auth)
  /\ IF RouteElement(p, auth).layout /\ ~screen.layout
       THEN /\ darkMode' = getItemIsTrue(ls, "darkMode")
            /\ classDark' = getItemIsTrue(ls, "darkMode")
            /\ installPrompt' = InstallPromptMount(ls, device, installPrompt)
       ELSE IF ~RouteElement(p, auth).layout /\ screen.layout
         THEN /\ installPrompt' = InstallPromptUnmount(installPrompt)
              /\ UNCHANGED <<darkMode, classDark>>
         ELSE UNCHANGED <<darkMode, classDark, installPrompt>>
  /\ UNCHANGED device

ShellFrame ==
  UNCHANGED <<location, req, wizVars, letters, filteredLetters, searchTerm,
              selectedRepFilter, statusFilter, page, pageNet, server,
              profVars, renewal>>

\* Layout is on screen and the page has not been replaced by the API
\* client's full-page redirect.
LayoutMounted == screen.layout /\ location # "/login"

\* The shell as the other pages see it: signed in, dashboard route.
ShellIdle ==
  /\ isAuthenticated = TRUE
  /\ path = "/"
  /\ screen = InLayout("DashboardPage")
  /\ darkMode = FALSE
  /\ classDark = FALSE
  /\ installPrompt = NoPrompt
  /\ device = [userAgent |-> "desktop", isStandalone |-> FALSE]

\* The app opened at some URL, signed in or not, before or after the user
\* has chosen dark mode: first render.
ShellInit ==
  /\ location = "/app"
  /\ req = [r \in Reqs |-> NewRequest]
  /\ device \in Devices
  /\ isAuthenticated \in BOOLEAN
  /\ path \in Paths
  /\ \E stored \in BOOLEAN :
       LET tokens == IF isAuthenticated
                       THEN [access_token |-> 1, refresh_token |-> 1]
                       ELSE [access_token |-> NULL, refresh_token |-> NULL]
       IN localStorage = IF stored THEN setItem(tokens, "darkMode", "true")
                                   ELSE tokens
  /\ screen = RouteElement(path, isAuthenticated)
  /\ darkMode = getItemIsTrue(localStorage, "darkMode")
  /\ classDark = (screen.layout /\ darkMode)
  /\ installPrompt =
       IF screen.layout
         THEN InstallPromptMount(localStorage, device, NoPrompt)
         ELSE NoPrompt

\* A link is followed or a URL entered.
navigate(p) ==
  /\ p # path
  /\ Render(p, isAuthenticated, localStorage)
  /\ UNCHANGED localStorage
  /\ ShellFrame

\* The effect of a rendered <Navigate to replace />.
NavigateEffect ==
  /\ screen.element = "Navigate"
  /\ Render(screen.to, isAuthenticated, localStorage)
  /\ UNCHANGED localStorage
  /\ ShellFrame

\* LoginPage / RegisterPage: useEffect navigating to '/' when signed in.
redirectWhenAuthenticated ==
  /\ screen.element \in {"LoginPage", "RegisterPage"}
  /\ isAuthenticated
  /\ Render("/", isAuthenticated, localStorage)
  /\ UNCHANGED localStorage
  /\ ShellFrame

\* handleSubmit of LoginPage / RegisterPage with a successful login: the auth
\* store keeps the tokens and sets isAuthenticated, the page navigates to '/'.
loginOk(access_token, refresh_token) ==
  /\ screen.element \in {"LoginPage", "RegisterPage"}
  /\ ~isAuthenticated
  /\ localStorage' = [localStorage EXCEPT !.access_token = access_token,
                                          !.refresh_token = refresh_token]
  /\ Render("/", TRUE, localStorage')
  /\ ShellFrame

\* handleLogout of Layout: logout(); navigate('/login').
handleLogout ==
  /\ LayoutMounted
  /\ localStorage' = [localStorage EXCEPT !.access_token = NULL,
                                          !.refresh_token = NULL]
  /\ Render("/login", FALSE, localStorage')
  /\ ShellFrame

\* The auth store drops the session (loadUser finds no valid token).
sessionLost ==
  /\ isAuthenticated
  /\ localStorage' = [localStorage EXCEPT !.access_token = NULL,
                                          !.refresh_token = NULL]
  /\ Render(path, FALSE, localStorage')
  /\ ShellFrame

\* Mutant: the flag is stored under the key 'theme'.
toggleDarkMode_ThemeKey ==
  /\ LayoutMounted
  /\ LET newDarkMode == ~darkMode
     IN /\ localStorage' = setItem(localStorage, "theme", toString(newDarkMode))
        /\ classDark' = newDarkMode
        /\ darkMode' = newDarkMode
  /\ UNCHANGED <<isAuthenticated, path, screen, installPrompt, device>>
  /\ ShellFrame

\* useThemeStore.toggleDarkMode (the button of Layout).
toggleDarkMode ==
  /\ LayoutMounted
  /\ LET newDarkMode == ~darkMode
     IN /\ localStorage' =
             setItem(localStorage, "darkMode", toString(newDarkMode))
        /\ classDark' = newDarkMode
        /\ darkMode' = newDarkMode
  /\ UNCHANGED <<isAuthenticated, path, screen, installPrompt, device>>
  /\ ShellFrame

PromptFrame ==
  /\ UNCHANGED <<isAuthenticated, path, screen, darkMode, classDark, device>>
  /\ ShellFrame

\* handleBeforeInstallPrompt: the browser offers installation.
handleBeforeInstallPrompt ==
  /\ LayoutMounted
  /\ installPrompt.listening
  /\ installPrompt' = [installPrompt EXCEPT !.deferredPrompt = TRUE,
                                            !.showPrompt = TRUE]
  /\ UNCHANGED localStorage
  /\ PromptFrame

\* The 3 second timer started on iOS fires.
iosTimer ==
  /\ LayoutMounted
  /\ installPrompt.timer
  /\ installPrompt' = [installPrompt EXCEPT !.showPrompt = TRUE,
                                            !.timer = FALSE]
  /\ UNCHANGED localStorage
  /\ PromptFrame

\* handleInstallClick up to the await of deferredPrompt.userChoice; the
\* button is rendered when isAndroid && deferredPrompt.
handleInstallClick ==
  /\ LayoutMounted
  /\ installPrompt.showPrompt
  /\ installPrompt.isAndroid /\ installPrompt.deferredPrompt
  /\ installPrompt.userChoice = "none"
  /\ installPrompt' = [installPrompt EXCEPT !.userChoice = "pending"]
  /\ UNCHANGED localStorage
  /\ PromptFrame

\* handleInstallClick after the user has answered the browser's dialog.
userChoiceResolved ==
  /\ installPrompt.userChoice # "none"
  /\ installPrompt' =
       IF installPrompt.userChoice = "pending"
         THEN [installPrompt EXCEPT !.deferredPrompt = FALSE,
                                    !.showPrompt = FALSE,
                                    !.userChoice = "none"]
         ELSE [installPrompt EXCEPT !.userChoice = "none"]
  /\ localStorage' = setItem(localStorage, "installPromptDismissed", "true")
  /\ PromptFrame

\* handleDismiss: the close button and "Maybe later".
handleDismiss ==
  /\ LayoutMounted
  /\ installPrompt.showPrompt
  /\ installPrompt' = [installPrompt EXCEPT !.showPrompt = FALSE]
  /\ localStorage' = setItem(localStorage, "installPromptDismissed", "true")
  /\ PromptFrame

\* What happens inside Layout: theme switch and install prompt.
LayoutNext ==
  \/ toggleDarkMode
  \/ handleBeforeInstallPrompt
  \/ iosTimer
  \/ handleInstallClick
  \/ userChoiceResolved
  \/ handleDismiss

ShellNext ==
  \/ \E p \in Paths : navigate(p)
  \/ NavigateEffect
  \/ redirectWhenAuthenticated
  \/ \E at \in Tokens, rt \in Tokens : loginOk(at, rt)
  \/ handleLogout
  \/ sessionLost
  \/ LayoutNext

\* ------------------------------------------------------ wizards: common part
NumCoreValues == 6   \* core values offered by politicalData.core_values

\* The option lists of politicalData (GET /api/letters/political-issues).
CoreValueKeys == 1..NumCoreValues
Issues == {"climate"}
PositionOptions == {"support"}
PriorityOptions == {"high"}
Tones == {"professional"}
Frameworks == {"moral"}
EngagementOptions == {"collaborative"}

\* Text a user can type into a free-text input.
TypedText == {<<>>, <<" ">>, <<"a">>}

\* err.response?.data?.detail of a failed request ("" when absent).
Details == {"", "backend detail"}

Mounted == ~parent.onClose

NoDescriptions ==
  [loaded |-> FALSE, formal |-> <<>>, passionate |-> <<>>, balanced |-> <<>>]

\* response.data.descriptions of a successful generate-description call.
DescriptionResponses ==
  UNION { { [loaded |-> TRUE, formal |-> <<"f", g>>, passionate |-> <<"p", g>>,
             balanced |-> b] : b \in {<<"b", g>>, <<>>} } : g \in {"1", "2"} }

NoProfile ==
  [id |-> NULL, name |-> <<>>, description |-> <<>>, issue_positions |-> <<>>,
   core_values |-> {}, preferred_tone |-> "",
   argumentative_frameworks |-> <<>>,
   representative_engagement |->
     [aligned_approach |-> "", opposing_approach |-> "",
      bipartisan_framing |-> ""],
   is_default |-> FALSE]

\* State of an unmounted component: React discards the useState cells.
WizardIdle ==
  /\ wizard = "none"
  /\ editMode = FALSE
  /\ existingProfile = NoProfile
  /\ currentStep = 1
  /\ loading = FALSE
  /\ error = ""
  /\ formData = <<>>
  /\ aiDescriptions = NoDescriptions
  /\ selectedDescription = <<>>
  /\ generatingLetters = FALSE
  /\ writingProfiles = <<>>
  /\ savedReps = <<>>
  /\ net = {}
  /\ parent = [onSuccess |-> FALSE, onClose |-> FALSE]

\* ------------------------------------------- WritingProfileWizard.jsx
WP_LastStep == 10

\* useState initial value of formData (lines 13-56); the optional fields
\* that no step validates are left out.
WP_InitialFormData ==
  [name |-> <<>>,
   issue_positions |-> <<>>,
   core_values |-> {},
   preferred_tone |-> "professional",
   argumentative_frameworks |-> <<>>,
   representative_engagement |->
     [aligned_approach |-> "", opposing_approach |-> "",
      bipartisan_framing |-> ""]]

\* Profiles the page can hand to the edit wizard (as stored by the backend).
ExistingProfiles ==
  { [id |-> 7, name |-> <<"a">>, description |-> d,
     issue_positions |->
       [i \in Issues |-> [position |-> "support", priority |-> "high"]],
     core_values |-> cv,
     preferred_tone |-> "professional",
     argumentative_frameworks |-> [f \in Frameworks |-> TRUE],
     representative_engagement |->
       [aligned_approach |-> "collaborative",
        opposing_approach |-> "collaborative",
        bipartisan_framing |-> "collaborative"],
     is_default |-> TRUE] :
    <<cv, d>> \in {<<1..NumCoreValues, <<"o">> >>, <<1..2, <<>> >>} }

\* useEffect on [editMode, existingProfile] (lines 68-97).
WP_prepopulate(ex) ==
  [name |-> ex.name,
   issue_positions |-> ex.issue_positions,
   core_values |-> ex.core_values,
   preferred_tone |-> IF ex.preferred_tone # "" THEN ex.preferred_tone
                                              ELSE "professional",
   argumentative_frameworks |-> ex.argumentative_frameworks,
   representative_engagement |-> ex.representative_engagement]

\* The component after mount and its mount effects.
WP_Mount(em, ex) ==
  /\ wizard = "profile"
  /\ editMode = em
  /\ existingProfile = ex
  /\ currentStep = 1
  /\ loading = FALSE
  /\ error = ""
  /\ formData = IF em /\ ex.id # NULL THEN WP_prepopulate(ex)
                                     ELSE WP_InitialFormData
  /\ aiDescriptions = NoDescriptions
  /\ selectedDescription = IF em /\ ex.id # NULL THEN ex.description ELSE <<>>
  /\ generatingLetters = FALSE
  /\ writingProfiles = <<>>
  /\ savedReps = <<>>
  /\ net = {}
  /\ parent = [onSuccess |-> FALSE, onClose |-> FALSE]

WP_Init ==
  \/ WP_Mount(FALSE, NoProfile)
  \/ \E ex \in ExistingProfiles : WP_Mount(TRUE, ex)

WP_Active == wizard = "profile" /\ Mounted

WP_frame ==
  UNCHANGED <<wizard, editMode, existingProfile, generatingLetters,
              writingProfiles, savedReps, apiVars, pageVars>>

\* Mutant: step 4 accepts any number of core values.
WP_CoreValuesError_Unchecked(n) == ""

\* Mutant: the lower bound on core values is checked against 2.
WP_CoreValuesError_Min2(n) ==
  IF n < 2 THEN "Please select at least 3 core values"
  ELSE IF n > 5 THEN "Please select no more than 5 core values"
  ELSE ""

\* Mutant: the upper bound on core values is not checked.
WP_CoreValuesError_NoMax(n) ==
  IF n < 3 THEN "Please select at least 3 core values" ELSE ""

\* validateCurrentStep case 4 (lines 221-230) on core_values.length.
WP_CoreValuesError(n) ==
  IF n < 3 THEN "Please select at least 3 core values"
  ELSE IF n > 5 THEN "Please select no more than 5 core values"
  ELSE ""

\* Mutant: generated descriptions suffice, none needs to be selected.
WP_DescriptionError_NoSelectionCheck(ai, sel) ==
  IF ~ai.loaded THEN "Please generate descriptions for your profile" ELSE ""

\* validateCurrentStep case 8 (lines 252-261)
WP_DescriptionError(ai, sel) ==
  IF ~ai.loaded THEN "Please generate descriptions for your profile"
  ELSE IF ~Truthy(Trim(sel)) THEN "Please select a profile description"
  ELSE ""

\* validateCurrentStep (lines 196-265): the error it sets, "" when it
\* returns true.
WP_StepError(step, fd, ai, sel) ==
  CASE step = 1 ->
         IF ~Truthy(Trim(fd.name)) THEN "Please enter a profile name" ELSE ""
    [] step = 2 ->
         IF DOMAIN fd.issue_positions = {}
           THEN "Please select at least one issue"
         ELSE IF \E i \in DOMAIN fd.issue_positions :
                   \/ fd.issue_positions[i].position = ""
                   \/ fd.issue_positions[i].priority = ""
           THEN "Please set position and priority for all selected issues"
         ELSE ""
    [] step = 4 -> WP_CoreValuesError(Cardinality(fd.core_values))
    [] step = 5 ->
         IF fd.preferred_tone = "" THEN "Please select a writing tone" ELSE ""
    [] step = 6 ->
         IF ~\E f \in DOMAIN fd.argumentative_frameworks :
                fd.argumentative_frameworks[f]
           THEN "Please select at least one argumentative framework"
         ELSE ""
    [] step = 7 ->
         IF \/ fd.representative_engagement.aligned_approach = ""
            \/ fd.representative_engagement.opposing_approach = ""
            \/ fd.representative_engagement.bipartisan_framing = ""
           THEN "Please complete all representative engagement options"
         ELSE ""
    [] step = 8 -> WP_DescriptionError(ai, sel)
    [] OTHER -> ""

WP_validateCurrentStep ==
  WP_StepError(currentStep, formData, aiDescriptions, selectedDescription) = ""

\* isNextButtonDisabled (lines 184-194)
WP_isNextButtonDisabled ==
  loading \/ (currentStep = 8 /\ ~aiDescriptions.loaded)

\* updateField('name', value) (lines 108-111, input at 428)
WP_updateName(value) ==
  /\ WP_Active /\ currentStep = 1
  /\ formData' = [formData EXCEPT !.name = value]
  /\ error' = ""
  /\ WP_frame
  /\ UNCHANGED <<currentStep, loading, aiDescriptions, selectedDescription,
                 net, parent>>

\* toggleIssueSelection (lines 124-138)
toggleIssueSelection(issueValue) ==
  /\ WP_Active /\ currentStep = 2
  /\ LET old == formData.issue_positions
         newPositions ==
           IF issueValue \in DOMAIN old
             THEN [i \in DOMAIN old \ {issueValue} |-> old[i]]
             ELSE [i \in DOMAIN old \cup {issueValue} |->
                     IF i = issueValue
                       THEN [position |-> "", priority |-> ""]
                       ELSE old[i]]
     IN formData' = [formData EXCEPT !.issue_positions = newPositions]
  /\ WP_frame
  /\ UNCHANGED <<currentStep, loading, error, aiDescriptions,
                 selectedDescription, net, parent>>

\* updateIssuePosition (lines 140-151); the selects are rendered for
\* selected issues only (line 503).
updateIssuePosition(issueValue, field, value) ==
  /\ WP_Active /\ currentStep = 2
  /\ issueValue \in DOMAIN formData.issue_positions
  /\ formData' =
       [formData EXCEPT !.issue_positions[issueValue] =
          IF field = "position" THEN [@ EXCEPT !.position = value]
                                ELSE [@ EXCEPT !.priority = value]]
  /\ WP_frame
  /\ UNCHANGED <<currentStep, loading, error, aiDescriptions,
                 selectedDescription, net, parent>>

\* toggleCoreValue (lines 153-160); the array holds no duplicates and only
\* its length and membership are read, so it is kept as a set.
toggleCoreValue(valueKey) ==
  /\ WP_Active /\ currentStep = 4
  /\ formData' =
       [formData EXCEPT !.core_values =
          IF valueKey \in @ THEN @ \ {valueKey} ELSE @ \cup {valueKey}]
  /\ WP_frame
  /\ UNCHANGED <<currentStep, loading, error, aiDescriptions,
                 selectedDescription, net, parent>>

\* updateField('preferred_tone', value) (radio at 661)
WP_updateTone(value) ==
  /\ WP_Active /\ currentStep = 5
  /\ formData' = [formData EXCEPT !.preferred_tone = value]
  /\ error' = ""
  /\ WP_frame
  /\ UNCHANGED <<currentStep, loading, aiDescriptions, selectedDescription,
                 net, parent>>

\* toggleFramework (lines 162-170): [framework]: !prev[framework]
toggleFramework(framework) ==
  /\ WP_Active /\ currentStep = 6
  /\ LET old == formData.argumentative_frameworks
         was == framework \in DOMAIN old /\ old[framework]
     IN formData' =
          [formData EXCEPT !.argumentative_frameworks =
             [f \in DOMAIN old \cup {framework} |->
                IF f = framework THEN ~was ELSE old[f]]]
  /\ WP_frame
  /\ UNCHANGED <<currentStep, loading, error, aiDescriptions,
                 selectedDescription, net, parent>>

\* updateNestedField('representative_engagement', childField, value)
\* (lines 113-122, radios at 759, 793, 824)
updateNestedField(childField, value) ==
  /\ WP_Active /\ currentStep = 7
  /\ formData' =
       [formData EXCEPT !.representative_engagement =
          CASE childField = "aligned_approach" ->
                 [@ EXCEPT !.aligned_approach = value]
            [] childField = "opposing_approach" ->
                 [@ EXCEPT !.opposing_approach = value]
            [] OTHER -> [@ EXCEPT !.bipartisan_framing = value]]
  /\ error' = ""
  /\ WP_frame
  /\ UNCHANGED <<currentStep, loading, aiDescriptions, selectedDescription,
                 net, parent>>

\* nextStep (lines 172-177) behind the Next button (lines 1188-1196)
WP_nextStep ==
  /\ WP_Active /\ currentStep < WP_LastStep /\ ~WP_isNextButtonDisabled
  /\ IF WP_validateCurrentStep
       THEN currentStep' = currentStep + 1 /\ error' = ""
       ELSE /\ currentStep' = currentStep
            /\ error' = WP_StepError(currentStep, formData, aiDescriptions,
                                     selectedDescription)
  /\ WP_frame
  /\ UNCHANGED <<loading, formData, aiDescriptions, selectedDescription,
                 net, parent>>

\* Mutant: the Previous button is rendered on the first step as well.
WP_prevStep_OnFirstStep ==
  /\ WP_Active /\ ~loading
  /\ currentStep' = currentStep - 1
  /\ error' = ""
  /\ WP_frame
  /\ UNCHANGED <<loading, formData, aiDescriptions, selectedDescription,
                 net, parent>>

\* prevStep (lines 179-182) behind the Previous button (lines 1178-1186)
WP_prevStep ==
  /\ WP_Active /\ currentStep > 1 /\ ~loading
  /\ currentStep' = currentStep - 1
  /\ error' = ""
  /\ WP_frame
  /\ UNCHANGED <<loading, formData, aiDescriptions, selectedDescription,
                 net, parent>>

\* generateDescriptions up to the await (lines 267-295); both buttons of
\* step 8 (lines 880-882, 963-965).
WP_generateDescriptions ==
  /\ WP_Active /\ currentStep = 8 /\ ~loading
  /\ loading' = TRUE
  /\ error' = ""
  /\ net' = net \cup {[api |-> "generateDescription", id |-> NULL,
                       data |-> formData, description |-> <<>>,
                       step |-> currentStep]}
  /\ WP_frame
  /\ UNCHANGED <<currentStep, formData, aiDescriptions, selectedDescription,
                 parent>>

\* generateDescriptions after a successful response (lines 297-300, 305)
WP_generateDescriptionsOk(m, descriptions) ==
  /\ wizard = "profile" /\ m \in net /\ m.api = "generateDescription"
  /\ net' = net \ {m}
  /\ IF Mounted
       THEN /\ aiDescriptions' = descriptions
            /\ selectedDescription' =
                 IF Truthy(descriptions.balanced) THEN descriptions.balanced
                                                  ELSE selectedDescription
            /\ loading' = FALSE
       ELSE UNCHANGED <<aiDescriptions, selectedDescription, loading>>
  /\ WP_frame
  /\ UNCHANGED <<currentStep, error, formData, parent>>

\* generateDescriptions after a failed response (lines 301-306)
WP_generateDescriptionsFail(m, detail) ==
  /\ wizard = "profile" /\ m \in net /\ m.api = "generateDescription"
  /\ net' = net \ {m}
  /\ IF Mounted
       THEN /\ error' = IF detail # "" THEN detail
                                       ELSE "Failed to generate descriptions"
            /\ loading' = FALSE
       ELSE UNCHANGED <<error, loading>>
  /\ WP_frame
  /\ UNCHANGED <<currentStep, formData, aiDescriptions, selectedDescription,
                 parent>>

\* The three description radios of step 8 (lines 902-960).
WP_selectDescription(variant) ==
  /\ WP_Active /\ currentStep = 8 /\ aiDescriptions.loaded
  /\ LET text == CASE variant = "formal" -> aiDescriptions.formal
                   [] variant = "passionate" -> aiDescriptions.passionate
                   [] OTHER -> aiDescriptions.balanced
     IN /\ Truthy(text)
        /\ selectedDescription' = text
  /\ WP_frame
  /\ UNCHANGED <<currentStep, loading, error, formData, aiDescriptions,
                 net, parent>>

\* Mutant: editing sends the create request as well.
WP_submitRequests_Both ==
  {[api |-> a,
    id |-> IF a = "updateWritingProfile" THEN existingProfile.id ELSE NULL,
    data |-> formData,
    description |-> selectedDescription,
    step |-> currentStep] :
   a \in IF editMode /\ existingProfile.id # NULL
           THEN {"updateWritingProfile", "createWritingProfile"}
           ELSE {"createWritingProfile"}}

\* Requests handleSubmit puts on the wire (lines 316-336).
WP_submitRequests ==
  LET hasExisting == editMode /\ existingProfile.id # NULL
  IN {[api |-> IF hasExisting THEN "updateWritingProfile"
                              ELSE "createWritingProfile",
       id |-> IF hasExisting THEN existingProfile.id ELSE NULL,
       data |-> formData,
       description |-> selectedDescription,
       step |-> currentStep]}

\* handleSubmit up to the await (lines 309-336) behind the submit button
\* (lines 1198-1209).
WP_handleSubmit ==
  /\ WP_Active /\ currentStep = WP_LastStep /\ ~loading
  /\ IF WP_validateCurrentStep
       THEN /\ loading' = TRUE
            /\ error' = ""
            /\ net' = net \cup WP_submitRequests
       ELSE /\ error' = WP_StepError(currentStep, formData, aiDescriptions,
                                     selectedDescription)
            /\ UNCHANGED <<loading, net>>
  /\ WP_frame
  /\ UNCHANGED <<currentStep, formData, aiDescriptions, selectedDescription,
                 parent>>

\* Unmounting: the page stops rendering the wizard, its state is discarded.
Unmount ==
  /\ currentStep' = 1
  /\ loading' = FALSE
  /\ error' = ""
  /\ formData' = <<>>
  /\ aiDescriptions' = NoDescriptions
  /\ selectedDescription' = <<>>

\* handleSubmit after a successful response: onSuccess(); onClose()
\* (lines 338-339, 344).
WP_handleSubmitOk(m) ==
  /\ wizard = "profile" /\ m \in net
  /\ m.api \in {"createWritingProfile", "updateWritingProfile"}
  /\ net' = net \ {m}
  /\ parent' = [onSuccess |-> TRUE, onClose |-> TRUE]
  /\ Unmount
  /\ WP_frame

\* handleSubmit after a failed response (lines 340-345)
WP_handleSubmitFail(m, detail) ==
  /\ wizard = "profile" /\ m \in net
  /\ m.api \in {"createWritingProfile", "updateWritingProfile"}
  /\ net' = net \ {m}
  /\ IF Mounted
       THEN /\ error' = IF detail # "" THEN detail
                        ELSE IF editMode THEN "Failed to update profile"
                                         ELSE "Failed to create profile"
            /\ loading' = FALSE
       ELSE UNCHANGED <<error, loading>>
  /\ WP_frame
  /\ UNCHANGED <<currentStep, formData, aiDescriptions, selectedDescription,
                 parent>>

\* The Cancel button (lines 1170-1175): onClose.
WP_cancel ==
  /\ WP_Active
  /\ parent' = [parent EXCEPT !.onClose = TRUE]
  /\ Unmount
  /\ WP_frame
  /\ UNCHANGED net

WP_Next ==
  \/ \E v \in TypedText : WP_updateName(v)
  \/ \E i \in Issues : toggleIssueSelection(i)
  \/ \E i \in Issues, v \in PositionOptions \cup {""} :
        updateIssuePosition(i, "position", v)
  \/ \E i \in Issues, v \in PriorityOptions \cup {""} :
        updateIssuePosition(i, "priority", v)
  \/ \E k \in CoreValueKeys : toggleCoreValue(k)
  \/ \E t \in Tones : WP_updateTone(t)
  \/ \E f \in Frameworks : toggleFramework(f)
  \/ \E c \in {"aligned_approach", "opposing_approach", "bipartisan_framing"},
        v \in EngagementOptions : updateNestedField(c, v)
  \/ WP_nextStep
  \/ WP_prevStep
  \/ WP_generateDescriptions
  \/ \E m \in net, d \in DescriptionResponses : WP_generateDescriptionsOk(m, d)
  \/ \E m \in net, d \in Details : WP_generateDescriptionsFail(m, d)
  \/ \E v \in {"formal", "passionate", "balanced"} : WP_selectDescription(v)
  \/ WP_handleSubmit
  \/ \E m \in net : WP_handleSubmitOk(m)
  \/ \E m \in net, d \in Details : WP_handleSubmitFail(m, d)
  \/ WP_cancel

\* ---------------------------------------------------- LetterWizard.jsx
LW_LastStep == 7

\* err.message of a rejected request
ErrMessage == "Request failed"

\* Mutant: the detail of the response is not shown.
FailureText_NoDetail(prefix, detail) == prefix \o "Request failed"

\* prefix + (err.response?.data?.detail || err.message)
FailureText(prefix, detail) ==
  prefix \o (IF detail # "" THEN detail ELSE ErrMessage)

\* Responses of GET writing-profiles and GET representatives/saved.
ProfileLists ==
  {<<>>,
   <<[id |-> "p1", is_default |-> FALSE]>>,
   <<[id |-> "p1", is_default |-> FALSE], [id |-> "p2", is_default |-> TRUE]>>}

RepLists == {<<>>, <<[id |-> "r1"], [id |-> "r2"]>>}

\* response.data of a successful generate-letter call: the created letter
\* with one recipient record per requested representative, in the order
\* of the request; the personalized texts may be missing.
LetterResponses(recipient_ids) ==
  { [id |-> letterId, subject |-> "S", base_content |-> "B",
     recipients |->
       [i \in 1..Len(recipient_ids) |->
          [id |-> "x-" \o recipient_ids[i],
           name |-> "Rep " \o recipient_ids[i],
           personalized_subject |->
             IF i \in personalized THEN "S-" \o recipient_ids[i] ELSE "",
           personalized_content |->
             IF i \in personalized THEN "B-" \o recipient_ids[i] ELSE ""]]] :
    letterId \in {"L1", "L2"},
    personalized \in {{}, {1}, 1..Len(recipient_ids)} }

\* useState initial value of formData (lines 26-36); the article list and
\* the suggested topics stay empty in this model.
LW_InitialFormData ==
  [writingProfileId |-> "",
   recipientIds |-> <<>>,
   articleUrls |-> <<>>,
   suggestedTopics |-> <<>>,
   selectedTopic |-> "",
   customTopic |-> "",
   generatedLetters |-> <<>>]

\* The component after mount: the mount effect has started loadInitialData
\* (lines 44-54).
LW_Init ==
  /\ wizard = "letter"
  /\ editMode = FALSE
  /\ existingProfile = NoProfile
  /\ currentStep = 1
  /\ loading = TRUE
  /\ error = ""
  /\ formData = LW_InitialFormData
  /\ aiDescriptions = NoDescriptions
  /\ selectedDescription = <<>>
  /\ generatingLetters = FALSE
  /\ writingProfiles = <<>>
  /\ savedReps = <<>>
  /\ net = {[api |-> "loadInitialData"]}
  /\ parent = [onSuccess |-> FALSE, onClose |-> FALSE]

LW_Active == wizard = "letter" /\ Mounted

\* The early return of the render function (lines 765-771): only a
\* spinner is shown, no control can be used.
LW_Rendered == LW_Active /\ ~(loading /\ currentStep = 1)

LW_frame ==
  UNCHANGED <<wizard, editMode, existingProfile, aiDescriptions,
              selectedDescription, apiVars, pageVars>>

\* Array.prototype.filter(x => x !== v)
RECURSIVE Without(_, _)
Without(seq, v) ==
  IF seq = <<>> THEN <<>>
  ELSE IF Head(seq) = v THEN Without(Tail(seq), v)
  ELSE <<Head(seq)>> \o Without(Tail(seq), v)

Includes(seq, v) == \E i \in 1..Len(seq) : seq[i] = v

\* loadInitialData after both responses (lines 56-63, 67)
loadInitialDataOk(m, profilesRes, reps) ==
  /\ wizard = "letter" /\ m \in net /\ m.api = "loadInitialData"
  /\ net' = net \ {m}
  /\ IF Mounted
       THEN /\ writingProfiles' = profilesRes
            /\ savedReps' = reps
            /\ LET defaults == {i \in 1..Len(profilesRes) : profilesRes[i].is_default}
               IN IF defaults # {}
                    THEN /\ formData' =
                              [formData EXCEPT !.writingProfileId =
                                 profilesRes[CHOOSE i \in defaults :
                                            \A j \in defaults : i <= j].id]
                         /\ error' = ""
                    ELSE UNCHANGED <<formData, error>>
            /\ loading' = FALSE
       ELSE UNCHANGED <<writingProfiles, savedReps, formData, error, loading>>
  /\ LW_frame
  /\ UNCHANGED <<currentStep, generatingLetters, parent>>

\* loadInitialData after a failure (lines 64-68)
loadInitialDataFail(m, detail) ==
  /\ wizard = "letter" /\ m \in net /\ m.api = "loadInitialData"
  /\ net' = net \ {m}
  /\ IF Mounted
       THEN /\ error' = FailureText("Failed to load data: ", detail)
            /\ loading' = FALSE
       ELSE UNCHANGED <<error, loading>>
  /\ LW_frame
  /\ UNCHANGED <<currentStep, formData, generatingLetters, writingProfiles,
                 savedReps, parent>>

\* updateField('writingProfileId', value) (radio at 349-353)
LW_selectProfile(i) ==
  /\ LW_Rendered /\ currentStep = 1 /\ i \in 1..Len(writingProfiles)
  /\ formData' = [formData EXCEPT !.writingProfileId = writingProfiles[i].id]
  /\ error' = ""
  /\ LW_frame
  /\ UNCHANGED <<currentStep, loading, generatingLetters, writingProfiles,
                 savedReps, net, parent>>

\* toggleRecipient (lines 76-83)
toggleRecipient(repId) ==
  /\ LW_Rendered /\ currentStep = 2
  /\ \E i \in 1..Len(savedReps) : savedReps[i].id = repId
  /\ formData' =
       [formData EXCEPT !.recipientIds =
          IF Includes(@, repId) THEN Without(@, repId) ELSE Append(@, repId)]
  /\ LW_frame
  /\ UNCHANGED <<currentStep, loading, error, generatingLetters,
                 writingProfiles, savedReps, net, parent>>

\* A URL as typed is a sequence of pieces: " " (white space), a scheme
\* name, ":", "//" and host names.
Schemes == {"http", "HTTPS", "ftp", "mailto"}

Hosts == {"a", "b"}

\* The URL parser lower-cases the scheme.
LowerCaseScheme(scheme) == IF scheme = "HTTPS" THEN "https" ELSE scheme

\* new URL(s).protocol, and "" where the constructor throws: without a
\* scheme there is no base to resolve against; http, https and ftp are
\* special schemes and need a host, of host characters only; any other
\* scheme takes the rest as an opaque path.
URLProtocol(s) ==
  LET t == Trim(s)
  IN IF Len(t) >= 2 /\ t[1] \in Schemes /\ t[2] = ":"
       THEN LET scheme == LowerCaseScheme(t[1])
                rest == SubSeq(t, 3, Len(t))
                host == IF rest # <<>> /\ Head(rest) = "//"
                          THEN Tail(rest) ELSE rest
            IN IF scheme \in {"http", "https", "ftp"}
                 THEN IF host # <<>> /\ \A i \in 1..Len(host) : host[i] \in Hosts
                        THEN scheme \o ":"
                        ELSE ""
                 ELSE scheme \o ":"
       ELSE ""

\* What the user may have typed into the URL input of step 3.
TypedUrls ==
  {<<>>, <<" ">>,
   <<"http", ":", "//", "a">>,
   <<" ", "http", ":", "//", "a", " ">>,
   <<"HTTPS", ":", "//", "b">>,
   <<"ftp", ":", "//", "a">>,
   <<"mailto", ":", "a">>,
   <<"a">>,
   <<"http", ":", "//">>,
   <<"http", ":", "//", "a", " ", "b">>}

\* Mutant: the duplicate check looks for the text as typed.
addArticleUrl_ChecksUntrimmed(currentUrl) ==
  /\ LW_Rendered /\ currentStep = 3
  /\ LET trimmedUrl == Trim(currentUrl)
     IN IF ~Truthy(trimmedUrl)
          THEN UNCHANGED <<formData, error>>
          ELSE IF URLProtocol(trimmedUrl) = ""
            THEN /\ error' = "Please enter a valid URL (e.g., https://example.com/article)"
                 /\ UNCHANGED formData
            ELSE IF URLProtocol(trimmedUrl) \notin {"http:", "https:"}
              THEN /\ error' = "Please enter a valid HTTP or HTTPS URL"
                   /\ UNCHANGED formData
              ELSE IF Includes(formData.articleUrls, currentUrl)
                THEN /\ error' = "This URL has already been added"
                     /\ UNCHANGED formData
                ELSE /\ formData' = [formData EXCEPT
                                       !.articleUrls = Append(@, trimmedUrl)]
                     /\ error' = ""
  /\ LW_frame
  /\ UNCHANGED <<currentStep, loading, generatingLetters, writingProfiles,
                 savedReps, net, parent>>

\* addArticleUrl (lines 85-117) with currentUrl, the text in the input of
\* step 3 (Enter, line 490, or the Add button, line 495).
addArticleUrl(currentUrl) ==
  /\ LW_Rendered /\ currentStep = 3
  /\ LET trimmedUrl == Trim(currentUrl)
     IN IF ~Truthy(trimmedUrl)
          THEN UNCHANGED <<formData, error>>
          ELSE IF URLProtocol(trimmedUrl) = ""
            THEN /\ error' = "Please enter a valid URL (e.g., https://example.com/article)"
                 /\ UNCHANGED formData
            ELSE IF URLProtocol(trimmedUrl) \notin {"http:", "https:"}
              THEN /\ error' = "Please enter a valid HTTP or HTTPS URL"
                   /\ UNCHANGED formData
              ELSE IF Includes(formData.articleUrls, trimmedUrl)
                THEN /\ error' = "This URL has already been added"
                     /\ UNCHANGED formData
                ELSE /\ formData' = [formData EXCEPT
                                       !.articleUrls = Append(@, trimmedUrl)]
                     /\ error' = ""
  /\ LW_frame
  /\ UNCHANGED <<currentStep, loading, generatingLetters, writingProfiles,
                 savedReps, net, parent>>

\* removeArticleUrl (lines 119-124)
removeArticleUrl(index) ==
  /\ LW_Rendered /\ currentStep = 3
  /\ index \in 1..Len(formData.articleUrls)
  /\ formData' = [formData EXCEPT !.articleUrls =
                    [i \in 1..(Len(@) - 1) |->
                       IF i < index THEN @[i] ELSE @[i + 1]]]
  /\ LW_frame
  /\ UNCHANGED <<currentStep, loading, error, generatingLetters,
                 writingProfiles, savedReps, net, parent>>

\* useState cell generatingTopics: true from setGeneratingTopics(true) to
\* the finally block, that is while the request is in flight.
generatingTopics == \E m \in net : m.api = "generateTopicSuggestions"

\* generateTopicSuggestions up to the await (lines 126-134); the button is
\* rendered when hasArticles && !hasTopicSuggestions (line 560).
generateTopicSuggestions ==
  /\ LW_Rendered /\ currentStep = 4
  /\ Len(formData.articleUrls) > 0 /\ Len(formData.suggestedTopics) = 0
  /\ ~generatingTopics
  /\ error' = ""
  /\ net' = net \cup {[api |-> "generateTopicSuggestions"]}
  /\ LW_frame
  /\ UNCHANGED <<currentStep, loading, formData, generatingLetters,
                 writingProfiles, savedReps, parent>>

\* generateTopicSuggestions after the response (lines 135-145)
generateTopicSuggestionsOk(m, topics) ==
  /\ wizard = "letter" /\ m \in net /\ m.api = "generateTopicSuggestions"
  /\ net' = net \ {m}
  /\ IF Mounted
       THEN /\ formData' = [formData EXCEPT !.suggestedTopics = topics]
            /\ error' = ""
       ELSE UNCHANGED <<formData, error>>
  /\ LW_frame
  /\ UNCHANGED <<currentStep, loading, generatingLetters, writingProfiles,
                 savedReps, parent>>

\* generateTopicSuggestions after a failed response (lines 140-145)
generateTopicSuggestionsFail(m, detail) ==
  /\ wizard = "letter" /\ m \in net /\ m.api = "generateTopicSuggestions"
  /\ net' = net \ {m}
  /\ IF Mounted
       THEN error' = FailureText("Failed to generate topics: ", detail)
       ELSE UNCHANGED error
  /\ LW_frame
  /\ UNCHANGED <<currentStep, loading, formData, generatingLetters,
                 writingProfiles, savedReps, parent>>

\* The select of suggested topics of step 4 (lines 580-592): the
\* placeholder option has the value ''.
LW_selectTopic(value) ==
  /\ LW_Rendered /\ currentStep = 4
  /\ Len(formData.suggestedTopics) > 0
  /\ value = "" \/ Includes(formData.suggestedTopics, value)
  /\ formData' = [formData EXCEPT !.selectedTopic = value, !.customTopic = ""]
  /\ error' = ""
  /\ LW_frame
  /\ UNCHANGED <<currentStep, loading, generatingLetters, writingProfiles,
                 savedReps, net, parent>>

\* Mutant: typing a custom topic leaves the selected topic alone.
LW_typeCustomTopic_KeepsSelected(value) ==
  /\ LW_Rendered /\ currentStep = 4
  /\ formData' = [formData EXCEPT !.customTopic = value]
  /\ error' = ""
  /\ LW_frame
  /\ UNCHANGED <<currentStep, loading, generatingLetters, writingProfiles,
                 savedReps, net, parent>>

\* The custom topic input of step 4 (lines 611-617): two updateField calls.
LW_typeCustomTopic(value) ==
  /\ LW_Rendered /\ currentStep = 4
  /\ formData' = [formData EXCEPT !.customTopic = value, !.selectedTopic = ""]
  /\ error' = ""
  /\ LW_frame
  /\ UNCHANGED <<currentStep, loading, generatingLetters, writingProfiles,
                 savedReps, net, parent>>

\* Mutant: step 4 is passed without a topic.
LW_StepError_TopicOptional(step, fd) ==
  CASE step = 1 ->
         IF fd.writingProfileId = "" THEN "Please select a writing profile"
                                     ELSE ""
    [] step = 2 ->
         IF Len(fd.recipientIds) = 0
           THEN "Please select at least one representative" ELSE ""
    [] OTHER -> ""

\* validateCurrentStep (lines 217-246): the error it sets, "" when it
\* returns true.
LW_StepError(step, fd) ==
  CASE step = 1 ->
         IF fd.writingProfileId = "" THEN "Please select a writing profile"
                                     ELSE ""
    [] step = 2 ->
         IF Len(fd.recipientIds) = 0
           THEN "Please select at least one representative" ELSE ""
    [] step = 4 ->
         IF fd.selectedTopic = "" /\ fd.customTopic = ""
           THEN "Please select or enter a topic for your letter" ELSE ""
    [] OTHER -> ""

LW_validateCurrentStep == LW_StepError(currentStep, formData) = ""

\* nextStep (lines 205-210) behind the Next button (lines 818-826)
LW_nextStep ==
  /\ LW_Rendered /\ currentStep < 6
  /\ Len(writingProfiles) > 0 /\ Len(savedReps) > 0
  /\ ~(loading \/ generatingLetters)
  /\ IF LW_validateCurrentStep
       THEN currentStep' = currentStep + 1 /\ error' = ""
       ELSE /\ currentStep' = currentStep
            /\ error' = LW_StepError(currentStep, formData)
  /\ LW_frame
  /\ UNCHANGED <<loading, formData, generatingLetters, writingProfiles,
                 savedReps, net, parent>>

\* Mutant: the Previous button is rendered on the last step as well.
LW_PrevButtonShown_AlsoOnLast(step) == step > 1

\* Is the Previous button rendered?  (line 808)
LW_PrevButtonShown(step) == step > 1 /\ step < 7

\* prevStep (lines 212-215) behind the Previous button (lines 808-816)
LW_prevStep ==
  /\ LW_Rendered /\ LW_PrevButtonShown(currentStep)
  /\ ~(loading \/ generatingLetters)
  /\ currentStep' = currentStep - 1
  /\ error' = ""
  /\ LW_frame
  /\ UNCHANGED <<loading, formData, generatingLetters, writingProfiles,
                 savedReps, net, parent>>

\* generateLetters up to the await (lines 149-163), button at 710-716
generateLetters ==
  /\ LW_Rendered /\ currentStep = 6 /\ ~generatingLetters
  /\ generatingLetters' = TRUE
  /\ error' = ""
  /\ net' = net \cup
       {[api |-> "generateLetter",
         writing_profile_id |-> formData.writingProfileId,
         recipient_ids |-> formData.recipientIds,
         topic |-> IF formData.customTopic # "" THEN formData.customTopic
                                                ELSE formData.selectedTopic]}
  /\ LW_frame
  /\ UNCHANGED <<currentStep, loading, formData, writingProfiles, savedReps,
                 parent>>

\* Mutant: every entry gets the letter's own subject and base content.
LW_toGeneratedLetters_BaseOnly(letter) ==
  [i \in 1..Len(letter.recipients) |->
     LET recipient == letter.recipients[i]
     IN [id |-> recipient.id,
         letter_id |-> letter.id,
         recipient_name |-> recipient.name,
         subject |-> letter.subject,
         content |-> letter.base_content]]

\* The recipients.map of lines 169-176.
LW_toGeneratedLetters(letter) ==
  [i \in 1..Len(letter.recipients) |->
     LET recipient == letter.recipients[i]
     IN [id |-> recipient.id,
         letter_id |-> letter.id,
         recipient_name |-> recipient.name,
         subject |-> IF recipient.personalized_subject # ""
                       THEN recipient.personalized_subject ELSE letter.subject,
         content |-> IF recipient.personalized_content # ""
                       THEN recipient.personalized_content
                       ELSE letter.base_content]]

\* generateLetters after a successful response (lines 168-179, 183):
\* updateField, then nextStep() of the render that was clicked (step 6,
\* whose validation is the default case).
generateLettersOk(m, letter) ==
  /\ wizard = "letter" /\ m \in net /\ m.api = "generateLetter"
  /\ net' = net \ {m}
  /\ IF Mounted
       THEN /\ formData' = [formData EXCEPT !.generatedLetters =
                              LW_toGeneratedLetters(letter)]
            /\ IF LW_StepError(6, formData) = ""
                 THEN currentStep' = currentStep + 1 /\ error' = ""
                 ELSE /\ currentStep' = currentStep
                      /\ error' = LW_StepError(6, formData)
            /\ generatingLetters' = FALSE
       ELSE UNCHANGED <<formData, currentStep, error, generatingLetters>>
  /\ LW_frame
  /\ UNCHANGED <<loading, writingProfiles, savedReps, parent>>

\* generateLetters after a failed response (lines 180-184)
generateLettersFail(m, detail) ==
  /\ wizard = "letter" /\ m \in net /\ m.api = "generateLetter"
  /\ net' = net \ {m}
  /\ IF Mounted
       THEN /\ error' = FailureText("Failed to generate letters: ", detail)
            /\ generatingLetters' = FALSE
       ELSE UNCHANGED <<error, generatingLetters>>
  /\ LW_frame
  /\ UNCHANGED <<currentStep, loading, formData, writingProfiles, savedReps,
                 parent>>

\* handleClose (lines 9-15): onClose, or navigate('/letters'); either way
\* the wizard is unmounted.
handleClose ==
  /\ parent' = [parent EXCEPT !.onClose = TRUE]
  /\ Unmount
  /\ generatingLetters' = FALSE
  /\ writingProfiles' = <<>>
  /\ savedReps' = <<>>

\* Mutant: the id of the first recipient record is sent instead of the
\* letter's id.
saveLetters_RecipientId ==
  /\ LW_Rendered /\ currentStep = 7 /\ ~loading
  /\ IF Len(formData.generatedLetters) > 0
       THEN /\ loading' = TRUE
            /\ error' = ""
            /\ net' = net \cup
                 {[api |-> "finalizeLetter",
                   id |-> formData.generatedLetters[1].id]}
            /\ UNCHANGED <<currentStep, formData, aiDescriptions,
                           selectedDescription, generatingLetters,
                           writingProfiles, savedReps, parent>>
       ELSE /\ handleClose
            /\ UNCHANGED net
  /\ UNCHANGED <<wizard, editMode, existingProfile, apiVars, pageVars>>

\* saveLetters (lines 187-203) behind the Save button (lines 828-836), up
\* to the await; without generated letters it closes at once.
saveLetters ==
  /\ LW_Rendered /\ currentStep = 7 /\ ~loading
  /\ IF Len(formData.generatedLetters) > 0
       THEN /\ loading' = TRUE
            /\ error' = ""
            /\ net' = net \cup
                 {[api |-> "finalizeLetter",
                   id |-> formData.generatedLetters[1].letter_id]}
            /\ UNCHANGED <<currentStep, formData, aiDescriptions,
                           selectedDescription, generatingLetters,
                           writingProfiles, savedReps, parent>>
       ELSE /\ handleClose
            /\ UNCHANGED net
  /\ UNCHANGED <<wizard, editMode, existingProfile, apiVars, pageVars>>

\* saveLetters after a successful finalize (lines 197, 201)
saveLettersOk(m) ==
  /\ wizard = "letter" /\ m \in net /\ m.api = "finalizeLetter"
  /\ net' = net \ {m}
  /\ handleClose
  /\ UNCHANGED <<wizard, editMode, existingProfile, apiVars, pageVars>>

\* saveLetters after a failed finalize (lines 198-202)
saveLettersFail(m, detail) ==
  /\ wizard = "letter" /\ m \in net /\ m.api = "finalizeLetter"
  /\ net' = net \ {m}
  /\ IF Mounted
       THEN /\ error' = FailureText("Failed to save letters: ", detail)
            /\ loading' = FALSE
       ELSE UNCHANGED <<error, loading>>
  /\ LW_frame
  /\ UNCHANGED <<currentStep, formData, generatingLetters, writingProfiles,
                 savedReps, parent>>

\* The Cancel button (lines 800-805)
LW_cancel ==
  /\ LW_Rendered
  /\ handleClose
  /\ UNCHANGED <<wizard, editMode, existingProfile, apiVars, pageVars, net>>

LW_Next ==
  \/ \E m \in net, ps \in ProfileLists, rs \in RepLists :
        loadInitialDataOk(m, ps, rs)
  \/ \E m \in net, d \in Details : loadInitialDataFail(m, d)
  \/ \E i \in 1..2 : LW_selectProfile(i)
  \/ \E r \in {"r1", "r2"} : toggleRecipient(r)
  \/ \E currentUrl \in TypedUrls : addArticleUrl(currentUrl)
  \/ \E index \in 1..2 : removeArticleUrl(index)
  \/ generateTopicSuggestions
  \/ \E m \in net, ts \in {<<>>, <<"suggested">>} :
        generateTopicSuggestionsOk(m, ts)
  \/ \E m \in net, d \in Details : generateTopicSuggestionsFail(m, d)
  \/ \E t \in {"", "suggested"} : LW_selectTopic(t)
  \/ \E t \in {"", "topic"} : LW_typeCustomTopic(t)
  \/ LW_nextStep
  \/ LW_prevStep
  \/ generateLetters
  \/ \E m \in {n \in net : n.api = "generateLetter"} :
        \E l \in LetterResponses(m.recipient_ids) : generateLettersOk(m, l)
  \/ \E m \in net, d \in Details : generateLettersFail(m, d)
  \/ saveLetters
  \/ \E m \in net : saveLettersOk(m)
  \/ \E m \in net, d \in Details : saveLettersFail(m, d)
  \/ LW_cancel

\* ------------------------------------------------ VoiceProfileWizard.jsx
VW_LastStep == 6

\* useState initial value of formData (lines 13-22), validated fields only.
VW_InitialFormData ==
  [name |-> <<>>, key_issues |-> <<>>, custom_issues |-> <<>>,
   preferred_tone |-> "professional"]

VW_Init ==
  /\ wizard = "voice"
  /\ editMode = FALSE
  /\ existingProfile = NoProfile
  /\ currentStep = 1
  /\ loading = FALSE
  /\ error = ""
  /\ formData = VW_InitialFormData
  /\ aiDescriptions = NoDescriptions
  /\ selectedDescription = <<>>
  /\ generatingLetters = FALSE
  /\ writingProfiles = <<>>
  /\ savedReps = <<>>
  /\ net = {}
  /\ parent = [onSuccess |-> FALSE, onClose |-> FALSE]

VW_Active == wizard = "voice" /\ Mounted

VW_frame ==
  UNCHANGED <<wizard, editMode, existingProfile, generatingLetters,
              writingProfiles, savedReps, apiVars, pageVars>>

\* updateField('name' | 'custom_issues', value) (lines 42-45)
VW_updateText(field, value) ==
  /\ VW_Active
  /\ \/ field = "name" /\ currentStep = 1
        /\ formData' = [formData EXCEPT !.name = value]
     \/ field = "custom_issues" /\ currentStep = 2
        /\ formData' = [formData EXCEPT !.custom_issues = value]
  /\ error' = ""
  /\ VW_frame
  /\ UNCHANGED <<currentStep, loading, aiDescriptions, selectedDescription,
                 net, parent>>

\* toggleIssue (lines 47-54)
toggleIssue(issueValue) ==
  /\ VW_Active /\ currentStep = 2
  /\ formData' =
       [formData EXCEPT !.key_issues =
          IF Includes(@, issueValue) THEN Without(@, issueValue)
                                     ELSE Append(@, issueValue)]
  /\ VW_frame
  /\ UNCHANGED <<currentStep, loading, error, aiDescriptions,
                 selectedDescription, net, parent>>

\* updateField('preferred_tone', value) (radio at 328)
VW_updateTone(value) ==
  /\ VW_Active /\ currentStep = 3
  /\ formData' = [formData EXCEPT !.preferred_tone = value]
  /\ error' = ""
  /\ VW_frame
  /\ UNCHANGED <<currentStep, loading, aiDescriptions, selectedDescription,
                 net, parent>>

\* validateCurrentStep (lines 68-97): the error it sets, "" when it
\* returns true.
VW_StepError(step, fd, sel) ==
  CASE step = 1 ->
         IF ~Truthy(Trim(fd.name)) THEN "Please enter a profile name" ELSE ""
    [] step = 2 ->
         IF Len(fd.key_issues) = 0 /\ ~Truthy(Trim(fd.custom_issues))
           THEN "Please select at least one issue or enter custom issues"
           ELSE ""
    [] step = 3 ->
         IF fd.preferred_tone = "" THEN "Please select a writing tone" ELSE ""
    [] step = 4 ->
         IF ~Truthy(Trim(sel))
           THEN "Please generate and select a profile description" ELSE ""
    [] OTHER -> ""

VW_validateCurrentStep ==
  VW_StepError(currentStep, formData, selectedDescription) = ""

\* nextStep (lines 56-61) behind the Next button (lines 607-615)
VW_nextStep ==
  /\ VW_Active /\ currentStep < VW_LastStep /\ ~loading
  /\ IF VW_validateCurrentStep
       THEN currentStep' = currentStep + 1 /\ error' = ""
       ELSE /\ currentStep' = currentStep
            /\ error' = VW_StepError(currentStep, formData,
                                     selectedDescription)
  /\ VW_frame
  /\ UNCHANGED <<loading, formData, aiDescriptions, selectedDescription,
                 net, parent>>

\* prevStep (lines 63-66) behind the Previous button (lines 597-605)
VW_prevStep ==
  /\ VW_Active /\ currentStep > 1 /\ ~loading
  /\ currentStep' = currentStep - 1
  /\ error' = ""
  /\ VW_frame
  /\ UNCHANGED <<loading, formData, aiDescriptions, selectedDescription,
                 net, parent>>

\* generateDescriptions up to the await (lines 99-112), buttons of step 4
VW_generateDescriptions ==
  /\ VW_Active /\ currentStep = 4 /\ ~loading
  /\ loading' = TRUE
  /\ error' = ""
  /\ net' = net \cup {[api |-> "generateDescription"]}
  /\ VW_frame
  /\ UNCHANGED <<currentStep, formData, aiDescriptions, selectedDescription,
                 parent>>

\* generateDescriptions after a successful response (lines 114-118, 123)
VW_generateDescriptionsOk(m, descriptions) ==
  /\ wizard = "voice" /\ m \in net /\ m.api = "generateDescription"
  /\ net' = net \ {m}
  /\ IF Mounted
       THEN /\ aiDescriptions' = descriptions
            /\ selectedDescription' =
                 IF Truthy(descriptions.balanced) THEN descriptions.balanced
                                                  ELSE selectedDescription
            /\ loading' = FALSE
       ELSE UNCHANGED <<aiDescriptions, selectedDescription, loading>>
  /\ VW_frame
  /\ UNCHANGED <<currentStep, error, formData, parent>>

\* generateDescriptions after a failed response (lines 119-124)
VW_generateDescriptionsFail(m, detail) ==
  /\ wizard = "voice" /\ m \in net /\ m.api = "generateDescription"
  /\ net' = net \ {m}
  /\ IF Mounted
       THEN /\ error' = IF detail # "" THEN detail
                                       ELSE "Failed to generate descriptions"
            /\ loading' = FALSE
       ELSE UNCHANGED <<error, loading>>
  /\ VW_frame
  /\ UNCHANGED <<currentStep, formData, aiDescriptions, selectedDescription,
                 parent>>

\* The description radios of step 4 (lines 383-440)
VW_selectDescription(variant) ==
  /\ VW_Active /\ currentStep = 4 /\ aiDescriptions.loaded
  /\ LET text == CASE variant = "formal" -> aiDescriptions.formal
                   [] variant = "passionate" -> aiDescriptions.passionate
                   [] OTHER -> aiDescriptions.balanced
     IN /\ Truthy(text)
        /\ selectedDescription' = text
  /\ VW_frame
  /\ UNCHANGED <<currentStep, loading, error, formData, aiDescriptions,
                 net, parent>>

\* handleSubmit (lines 127-152) behind the submit button (lines 617-625).
\* lettersAPI has no createVoiceProfile (api.js lines 80-124): the call
\* throws inside the try block before anything is sent, the catch branch
\* sets the fallback message and finally resets loading.
VW_handleSubmit ==
  /\ VW_Active /\ currentStep = VW_LastStep /\ ~loading
  /\ IF VW_validateCurrentStep
       THEN /\ error' = "Failed to create profile"
            /\ loading' = FALSE
       ELSE /\ error' = VW_StepError(currentStep, formData,
                                     selectedDescription)
            /\ UNCHANGED loading
  /\ VW_frame
  /\ UNCHANGED <<currentStep, formData, aiDescriptions, selectedDescription,
                 net, parent>>

\* The Cancel button (lines 589-594): onClose.
VW_cancel ==
  /\ VW_Active
  /\ parent' = [parent EXCEPT !.onClose = TRUE]
  /\ Unmount
  /\ VW_frame
  /\ UNCHANGED net

VW_Next ==
  \/ \E f \in {"name", "custom_issues"}, v \in TypedText : VW_updateText(f, v)
  \/ \E i \in Issues : toggleIssue(i)
  \/ \E t \in Tones : VW_updateTone(t)
  \/ VW_nextStep
  \/ VW_prevStep
  \/ VW_generateDescriptions
  \/ \E m \in net, d \in DescriptionResponses : VW_generateDescriptionsOk(m, d)
  \/ \E m \in net, d \in Details : VW_generateDescriptionsFail(m, d)
  \/ \E v \in {"formal", "passionate", "balanced"} : VW_selectDescription(v)
  \/ VW_handleSubmit
  \/ VW_cancel

\* ------------------------------------------------------ LettersPage.jsx
MaxLetters == 2      \* length of the fetched letter list

\* String.prototype.toLowerCase on the characters used here.
LowerChar(c) ==
  CASE c = "J" -> "j"
    [] c = "D" -> "d"
    [] c = "T" -> "t"
    [] OTHER -> c

toLowerCase(s) == [i \in 1..Len(s) |-> LowerChar(s[i])]

\* String.prototype.includes
StrIncludes(s, t) ==
  \E i \in 0..(Len(s) - Len(t)) : SubSeq(s, i + 1, i + Len(t)) = t

\* The value of the "All representatives" option (line 432).
ALL == <<"a", "l", "l">>

JaneDoe == <<"J", "D">>

\* Recipient lists of the sample letters: the same name in other case, a
\* longer name containing it, several recipients, none.
RecipientLists ==
  << <<[name |-> JaneDoe]>>,
     <<[name |-> <<"j", "d">>]>>,
     <<[name |-> <<"J", "D", "e">>]>>,
     <<[name |-> <<"J", "D", "e">>], [name |-> JaneDoe]>>,
     <<>> >>

RepNames == {JaneDoe, <<"j", "d">>, <<"J", "D", "e">>}

\* The letters of the account: one per recipient list, as a draft or
\* finalized.
SampleIds == 1..Len(RecipientLists)

Statuses == {"draft", "finalized"}

SampleLetter(id, status) ==
  [id |-> id, subject |-> <<"T">>, category |-> <<"c">>,
   status |-> status, recipients |-> RecipientLists[id]]

SampleLetters == {SampleLetter(id, st) : id \in SampleIds, st \in Statuses}

\* What GET /api/letters/ can return: up to MaxLetters distinct letters in
\* the order of the backend.
LetterLists ==
  { l \in UNION { [1..n -> SampleLetters] : n \in 0..MaxLetters } :
      \A i \in 1..(Len(l) - 1) : l[i].id < l[i + 1].id }

SearchTerms == {<<>>, <<"j">>, <<"t">>, <<"D", "e">>}

\* Array.prototype.filter with the predicate given as a set of letters
RECURSIVE FilterSeq(_, _)
FilterSeq(seq, keep) ==
  IF seq = <<>> THEN <<>>
  ELSE IF Head(seq) \in keep THEN <<Head(seq)>> \o FilterSeq(Tail(seq), keep)
  ELSE FilterSeq(Tail(seq), keep)

\* Mutant: the representative filter matches by substring.
HasRecipientNamed_Substring(letter, name) ==
  \E i \in 1..Len(letter.recipients) :
     StrIncludes(letter.recipients[i].name, name)

\* letter.recipients?.some(r => r.name === selectedRepFilter) (line 102)
HasRecipientNamed(letter, name) ==
  \E i \in 1..Len(letter.recipients) : letter.recipients[i].name = name

\* Mutant: the search reads the subject only.
MatchesSearch_SubjectOnly(letter, term) ==
  StrIncludes(toLowerCase(letter.subject), term)

\* The search predicate of lines 92-96.
MatchesSearch(letter, term) ==
  \/ StrIncludes(toLowerCase(letter.subject), term)
  \/ StrIncludes(toLowerCase(letter.category), term)
  \/ \E i \in 1..Len(letter.recipients) :
        StrIncludes(toLowerCase(letter.recipients[i].name), term)

\* Mutant: the status filter is not applied.
filterLetters_AnyStatus(ls, term, repFilter, status) ==
  LET bySearch ==
        IF Truthy(term)
          THEN FilterSeq(ls,
                 {l \in SampleLetters : MatchesSearch(l, toLowerCase(term))})
          ELSE ls
  IN IF repFilter # ALL
       THEN FilterSeq(bySearch,
              {l \in SampleLetters : HasRecipientNamed(l, repFilter)})
       ELSE bySearch

\* filterLetters (lines 83-107): the value it passes to setFilteredLetters.
filterLetters(ls, term, repFilter, status) ==
  LET byStatus == FilterSeq(ls, {l \in SampleLetters : l.status = status})
      bySearch ==
        IF Truthy(term)
          THEN FilterSeq(byStatus,
                 {l \in SampleLetters : MatchesSearch(l, toLowerCase(term))})
          ELSE byStatus
  IN IF repFilter # ALL
       THEN FilterSeq(bySearch,
              {l \in SampleLetters : HasRecipientNamed(l, repFilter)})
       ELSE bySearch

\* representativeNames (lines 110-116), as the set of option values
representativeNames(ls) ==
  UNION { {ls[i].recipients[j].name : j \in 1..Len(ls[i].recipients)} :
          i \in 1..Len(ls) }

\* The useState initial values (lines 11-18, 57).
PagesIdle ==
  /\ letters = <<>>
  /\ filteredLetters = <<>>
  /\ searchTerm = <<>>
  /\ selectedRepFilter = ALL
  /\ statusFilter = "draft"
  /\ page = [loading |-> TRUE, error |-> "", success |-> "",
             togglingStatus |-> NULL, sent |-> 0]
  /\ pageNet = {}
  /\ server = <<>>
  /\ profiles = <<>>
  /\ wpPage = [loading |-> TRUE, error |-> "", success |-> "",
               confirmDeleteProfile |-> NULL, sent |-> 0]
  /\ profileStore = <<>>

\* No page is in use and the shell shows the dashboard.
PageIdle == PagesIdle /\ ShellIdle

\* The useState initial values (lines 11-18) and the first run of the
\* filter effect.
PageInit == PageIdle

PageFrame == UNCHANGED <<apiVars, wizVars, profVars, shellVars, renewal>>

\* The page shows its controls (lines 344-350: a spinner while loading).
PageRendered == ~page.loading

\* setLetters(list) (line 72) and the filter effect (lines 63-65) that the
\* change of letters triggers.
setLetters(list) ==
  /\ letters' = list
  /\ filteredLetters' =
       filterLetters(list, searchTerm, selectedRepFilter, statusFilter)
  /\ UNCHANGED <<searchTerm, selectedRepFilter, statusFilter>>

\* loadLetters (lines 67-81) with its response, as one step.
loadLettersOk(list) ==
  /\ setLetters(list)
  /\ page' = [page EXCEPT !.loading = FALSE, !.error = ""]
  /\ UNCHANGED <<pageNet, server>>
  /\ PageFrame

\* onChange of the search input (line 417) and the filter effect
setSearchTerm(value) ==
  /\ PageRendered /\ Len(letters) > 0
  /\ searchTerm' = value
  /\ filteredLetters' =
       filterLetters(letters, value, selectedRepFilter, statusFilter)
  /\ UNCHANGED <<letters, selectedRepFilter, statusFilter>>
  /\ UNCHANGED <<page, pageNet, server>>
  /\ PageFrame

\* onChange of the representative select (lines 427-436) and the effect
setSelectedRepFilter(value) ==
  /\ PageRendered /\ Len(letters) > 0
  /\ value \in {ALL} \cup representativeNames(letters)   \* the options
  /\ selectedRepFilter' = value
  /\ filteredLetters' = filterLetters(letters, searchTerm, value, statusFilter)
  /\ UNCHANGED <<letters, searchTerm, statusFilter>>
  /\ UNCHANGED <<page, pageNet, server>>
  /\ PageFrame

\* The Draft / Sent buttons (lines 384-401) and the effect
setStatusFilter(value) ==
  /\ PageRendered /\ Len(letters) > 0
  /\ statusFilter' = value
  /\ filteredLetters' =
       filterLetters(letters, searchTerm, selectedRepFilter, value)
  /\ UNCHANGED <<letters, searchTerm, selectedRepFilter>>
  /\ UNCHANGED <<page, pageNet, server>>
  /\ PageFrame

\* The "Clear filters" button (lines 484-492) and the effect
clearFilters ==
  /\ PageRendered /\ Len(letters) > 0 /\ Len(filteredLetters) = 0
  /\ searchTerm' = <<>>
  /\ selectedRepFilter' = ALL
  /\ filteredLetters' = filterLetters(letters, <<>>, ALL, statusFilter)
  /\ UNCHANGED <<letters, statusFilter>>
  /\ UNCHANGED <<page, pageNet, server>>
  /\ PageFrame

PageNext ==
  \/ \E list \in LetterLists : loadLettersOk(list)
  \/ \E t \in SearchTerms : setSearchTerm(t)
  \/ \E n \in {ALL} \cup RepNames : setSelectedRepFilter(n)
  \/ \E s \in {"draft", "finalized"} : setStatusFilter(s)
  \/ clearFilters

\* ------------------------------------ LettersPage.jsx: the status toggle
MaxToggles == 3      \* status toggles started on one page visit

\* The backend at page load: letters 1 and 2 in any status.
ServerLists == {l \in LetterLists : \A i \in 1..Len(l) : l[i].id <= 2}

Opposite(status) == IF status = "draft" THEN "finalized" ELSE "draft"

\* PATCH /api/letters/{id}/status as the backend applies it.
ServerWithStatus(list, id, status) ==
  [i \in 1..Len(list) |->
     IF list[i].id = id THEN [list[i] EXCEPT !.status = status] ELSE list[i]]

\* LettersPage after mount: the mount effect (lines 59-61) has called
\* loadLetters.
StatusPageInit ==
  /\ letters = <<>>
  /\ filteredLetters = <<>>
  /\ searchTerm = <<>>
  /\ selectedRepFilter = ALL
  /\ statusFilter = "draft"
  /\ page = [loading |-> TRUE, error |-> "", success |-> "",
             togglingStatus |-> NULL, sent |-> 0]
  /\ pageNet = {[op |-> "getLetters", for |-> "mount", id |-> NULL,
                 status |-> "", seq |-> 0]}
  /\ server \in ServerLists
  /\ profiles = <<>>
  /\ wpPage = [loading |-> TRUE, error |-> "", success |-> "",
               confirmDeleteProfile |-> NULL, sent |-> 0]
  /\ profileStore = <<>>
  /\ ShellIdle

\* handleToggleStatus up to its first await (lines 252-256), behind the
\* toggle of a displayed letter (lines 517-519).
handleToggleStatus(i) ==
  /\ PageRendered
  /\ i \in 1..Len(filteredLetters)
  /\ page.togglingStatus # filteredLetters[i].id
  /\ page.sent < MaxToggles
  /\ page' = [page EXCEPT !.togglingStatus = filteredLetters[i].id,
                          !.sent = @ + 1]
  /\ pageNet' = pageNet \cup
       {[op |-> "updateLetterStatus", for |-> "toggle",
         id |-> filteredLetters[i].id,
         status |-> Opposite(filteredLetters[i].status),
         seq |-> page.sent + 1]}
  /\ UNCHANGED <<letters, filteredLetters, searchTerm, selectedRepFilter,
                 statusFilter, server>>
  /\ PageFrame

\* The status update succeeded; handleToggleStatus goes on to
\* await loadLetters() (line 257), which runs to its own await
\* (lines 68-71).
updateLetterStatusOk(m) ==
  /\ m \in pageNet /\ m.op = "updateLetterStatus"
  /\ server' = ServerWithStatus(server, m.id, m.status)
  /\ page' = [page EXCEPT !.loading = TRUE, !.error = ""]
  /\ pageNet' = (pageNet \ {m}) \cup {[m EXCEPT !.op = "getLetters"]}
  /\ UNCHANGED <<letters, filteredLetters, searchTerm, selectedRepFilter,
                 statusFilter>>
  /\ PageFrame

\* The status update failed (lines 260-265).
updateLetterStatusFail(m, detail) ==
  /\ m \in pageNet /\ m.op = "updateLetterStatus"
  /\ page' = [page EXCEPT
                !.error = FailureText("Failed to update letter status: ",
                                      detail),
                !.togglingStatus = NULL]
  /\ pageNet' = pageNet \ {m}
  /\ UNCHANGED <<letters, filteredLetters, searchTerm, selectedRepFilter,
                 statusFilter, server>>
  /\ PageFrame

\* How handleToggleStatus goes on once loadLetters has returned
\* (lines 258-259, 264); loadLetters never throws.
AfterLoad(m, pg) ==
  IF m.for = "toggle"
    THEN [pg EXCEPT
            !.success = IF m.status = "finalized" THEN "Letter marked as sent"
                                                  ELSE "Letter marked as draft",
            !.togglingStatus = NULL]
    ELSE pg

\* loadLetters after the response of GET /api/letters/ (lines 72, 79).
getLettersOk(m) ==
  /\ m \in pageNet /\ m.op = "getLetters"
  /\ setLetters(server)
  /\ page' = AfterLoad(m, [page EXCEPT !.loading = FALSE])
  /\ pageNet' = pageNet \ {m}
  /\ UNCHANGED server
  /\ PageFrame

\* loadLetters after a failed GET /api/letters/ (lines 73-80).
getLettersFail(m, status) ==
  /\ m \in pageNet /\ m.op = "getLetters"
  /\ page' = AfterLoad(m, [page EXCEPT
                             !.loading = FALSE,
                             !.error = IF status # 404
                                         THEN "Failed to load letters"
                                         ELSE @])
  /\ pageNet' = pageNet \ {m}
  /\ UNCHANGED <<letters, filteredLetters, searchTerm, selectedRepFilter,
                 statusFilter, server>>
  /\ PageFrame

\* The toasts are closed, by hand (lines 354-355) or by the timers
\* (lines 259, 262).
closeToasts ==
  /\ page.error # "" \/ page.success # ""
  /\ page' = [page EXCEPT !.error = "", !.success = ""]
  /\ UNCHANGED <<letters, filteredLetters, searchTerm, selectedRepFilter,
                 statusFilter, pageNet, server>>
  /\ PageFrame

StatusNext ==
  \/ \E i \in 1..MaxLetters : handleToggleStatus(i)
  \/ \E m \in pageNet : updateLetterStatusOk(m)
  \/ \E m \in pageNet, d \in Details : updateLetterStatusFail(m, d)
  \/ \E m \in pageNet : getLettersOk(m)
  \/ \E m \in pageNet, st \in {404, 500} : getLettersFail(m, st)
  \/ \E s \in Statuses : setStatusFilter(s)
  \/ closeToasts

\* --------------------------------------------- WritingProfilesPage.jsx
MaxProfiles == 2     \* writing profiles of the account
MaxDeletes == 2      \* delete requests sent on one page visit

\* The writing profiles the backend can hold at page load.
ProfileStores ==
  { s \in UNION { [1..n -> [id : 1..MaxProfiles]] : n \in 0..MaxProfiles } :
      \A i \in 1..(Len(s) - 1) : s[i].id < s[i + 1].id }

\* DELETE /api/letters/writing-profiles/{id} as the backend applies it.
RECURSIVE StoreWithout(_, _)
StoreWithout(store, id) ==
  IF store = <<>> THEN <<>>
  ELSE IF Head(store).id = id THEN StoreWithout(Tail(store), id)
  ELSE <<Head(store)>> \o StoreWithout(Tail(store), id)

HasProfile(list, id) == \E i \in 1..Len(list) : list[i].id = id

\* WritingProfilesPage after mount: the mount effect (lines 21-23) has
\* called loadProfiles.
ProfilesPageInit ==
  /\ profiles = <<>>
  /\ wpPage = [loading |-> TRUE, error |-> "", success |-> "",
               confirmDeleteProfile |-> NULL, sent |-> 0]
  /\ profileStore \in ProfileStores
  /\ pageNet = {[op |-> "getWritingProfiles", for |-> "mount", id |-> NULL,
                 seq |-> 0]}
  /\ letters = <<>>
  /\ filteredLetters = <<>>
  /\ searchTerm = <<>>
  /\ selectedRepFilter = ALL
  /\ statusFilter = "draft"
  /\ page = [loading |-> TRUE, error |-> "", success |-> "",
             togglingStatus |-> NULL, sent |-> 0]
  /\ server = <<>>
  /\ ShellIdle

ProfilesFrame ==
  UNCHANGED <<apiVars, wizVars, letters, filteredLetters, searchTerm,
              selectedRepFilter, statusFilter, page, server, shellVars,
              renewal>>

\* The list and its buttons are shown (lines 88-94: a spinner while
\* loading).
ProfilesRendered == ~wpPage.loading

\* The delete confirmation modal is shown (line 272).
DeleteModalShown == ProfilesRendered /\ wpPage.confirmDeleteProfile # NULL

\* loadProfiles after its response (lines 28-29, 34).
getWritingProfilesOk(m) ==
  /\ m \in pageNet /\ m.op = "getWritingProfiles"
  /\ profiles' = profileStore
  /\ wpPage' = [wpPage EXCEPT !.loading = FALSE]
  /\ pageNet' = pageNet \ {m}
  /\ UNCHANGED profileStore
  /\ ProfilesFrame

\* loadProfiles after a failure (lines 30-35).
getWritingProfilesFail(m) ==
  /\ m \in pageNet /\ m.op = "getWritingProfiles"
  /\ wpPage' = [wpPage EXCEPT !.loading = FALSE,
                              !.error = "Failed to load writing profiles"]
  /\ pageNet' = pageNet \ {m}
  /\ UNCHANGED <<profiles, profileStore>>
  /\ ProfilesFrame

\* Mutant: the delete button sends the request without asking.
handleDelete_NoConfirm(i) ==
  /\ ProfilesRendered /\ wpPage.confirmDeleteProfile = NULL
  /\ i \in 1..Len(profiles)
  /\ wpPage.sent < MaxDeletes
  /\ wpPage' = [wpPage EXCEPT !.sent = @ + 1]
  /\ pageNet' = pageNet \cup
       {[op |-> "deleteWritingProfile", for |-> "delete",
         id |-> profiles[i].id, seq |-> wpPage.sent + 1]}
  /\ UNCHANGED <<profiles, profileStore>>
  /\ ProfilesFrame

\* handleDelete (lines 38-40) behind the Delete button of a profile card
\* (line 225); the modal, once shown, covers the cards.
handleDelete(i) ==
  /\ ProfilesRendered /\ wpPage.confirmDeleteProfile = NULL
  /\ i \in 1..Len(profiles)
  /\ wpPage' = [wpPage EXCEPT !.confirmDeleteProfile = profiles[i].id]
  /\ UNCHANGED <<profiles, profileStore, pageNet>>
  /\ ProfilesFrame

\* The Cancel button of the modal (lines 282-287).
cancelDelete ==
  /\ DeleteModalShown
  /\ wpPage' = [wpPage EXCEPT !.confirmDeleteProfile = NULL]
  /\ UNCHANGED <<profiles, profileStore, pageNet>>
  /\ ProfilesFrame

\* confirmDeleteAction up to its await (lines 42-44) behind the Delete
\* button of the modal (lines 288-293).
confirmDeleteAction ==
  /\ DeleteModalShown
  /\ wpPage.sent < MaxDeletes
  /\ wpPage' = [wpPage EXCEPT !.sent = @ + 1]
  /\ pageNet' = pageNet \cup
       {[op |-> "deleteWritingProfile", for |-> "delete",
         id |-> wpPage.confirmDeleteProfile, seq |-> wpPage.sent + 1]}
  /\ UNCHANGED <<profiles, profileStore>>
  /\ ProfilesFrame

\* confirmDeleteAction after the delete succeeded (lines 45-47, 51-53):
\* the success toast, loadProfiles() up to its await (lines 26-28), then
\* the finally block.
deleteWritingProfileOk(m) ==
  /\ m \in pageNet /\ m.op = "deleteWritingProfile"
  /\ HasProfile(profileStore, m.id)
  /\ profileStore' = StoreWithout(profileStore, m.id)
  /\ wpPage' = [wpPage EXCEPT
                  !.success = "Writing profile deleted successfully",
                  !.loading = TRUE,
                  !.confirmDeleteProfile = NULL]
  /\ pageNet' = (pageNet \ {m}) \cup {[m EXCEPT !.op = "getWritingProfiles"]}
  /\ UNCHANGED profiles
  /\ ProfilesFrame

\* confirmDeleteAction after the delete failed (lines 48-53).
deleteWritingProfileFail(m, detail) ==
  /\ m \in pageNet /\ m.op = "deleteWritingProfile"
  /\ wpPage' = [wpPage EXCEPT
                  !.error = IF detail # "" THEN detail
                                           ELSE "Failed to delete profile",
                  !.confirmDeleteProfile = NULL]
  /\ pageNet' = pageNet \ {m}
  /\ UNCHANGED <<profiles, profileStore>>
  /\ ProfilesFrame

\* The toasts are closed, by hand (lines 98-99) or by the timers
\* (lines 46, 50).
closeProfileToasts ==
  /\ wpPage.error # "" \/ wpPage.success # ""
  /\ wpPage' = [wpPage EXCEPT !.error = "", !.success = ""]
  /\ UNCHANGED <<profiles, profileStore, pageNet>>
  /\ ProfilesFrame

ProfilesNext ==
  \/ \E m \in pageNet : getWritingProfilesOk(m)
  \/ \E m \in pageNet : getWritingProfilesFail(m)
  \/ \E i \in 1..MaxProfiles : handleDelete(i)
  \/ cancelDelete
  \/ confirmDeleteAction
  \/ \E m \in pageNet : deleteWritingProfileOk(m)
  \/ \E m \in pageNet, d \in Details : deleteWritingProfileFail(m, d)
  \/ closeProfileToasts

\* ------------------------- renew-certs script (src/unnamed/part_006)
\* How far around the 30 day threshold, and below zero, expiry dates go.
MaxDelta == 2

SecondsPerDay == 86400

RenewBeforeDays == 30

\* $(( a / b )): shell arithmetic divides truncating toward zero.
Quot(a, b) == IF a >= 0 THEN a \div b ELSE -((-a) \div b)

\* Seconds from now to the certificate's notAfter: whole days around the
\* threshold and around zero, each exact, one second more, one second less
\* than the next day; negative when the certificate has expired.
RemainingSeconds ==
  {d * SecondsPerDay + o :
     d \in ((RenewBeforeDays - MaxDelta)..(RenewBeforeDays + MaxDelta))
              \cup ((-MaxDelta)..1),
     o \in {0, 1, SecondsPerDay - 1}}

\* The script is not running.
NotRun ==
  [pc |-> "idle", certExists |-> FALSE, EXPIRY_EPOCH |-> 0,
   CURRENT_EPOCH |-> 0, expiryRead |-> FALSE, DAYS_LEFT |-> 0,
   certbot |-> "none", nginxReloaded |-> FALSE, exited |-> FALSE,
   status |-> 0]

ScriptIdle == renewal = NotRun

\* The script starts: the certificate file is there or not, it expires (or
\* has expired) at some time, the clock shows some time.
ScriptStart ==
  \E exists \in BOOLEAN, now \in {0, SecondsPerDay \div 2},
     remaining \in RemainingSeconds :
    renewal = [NotRun EXCEPT !.pc = "checkCertificate",
                             !.certExists = exists,
                             !.CURRENT_EPOCH = now,
                             !.EXPIRY_EPOCH = now + remaining]

ScriptFrame ==
  UNCHANGED <<apiVars, wizVars, letters, filteredLetters, searchTerm,
              selectedRepFilter, statusFilter, page, pageNet, server,
              profVars, shellVars>>

\* if [ ! -f .../fullchain.pem ]; then ... exit 0 (lines 14-19)
checkCertificate ==
  /\ renewal.pc = "checkCertificate"
  /\ renewal' = IF renewal.certExists
                  THEN [renewal EXCEPT !.pc = "readExpiry"]
                  ELSE [renewal EXCEPT !.pc = "done", !.exited = TRUE,
                                       !.status = 0]
  /\ ScriptFrame

\* EXPIRY_DATE, EXPIRY_EPOCH, CURRENT_EPOCH, DAYS_LEFT (lines 22-25)
readExpiry ==
  /\ renewal.pc = "readExpiry"
  /\ renewal' = [renewal EXCEPT
                   !.pc = "checkDaysLeft",
                   !.expiryRead = TRUE,
                   !.DAYS_LEFT = Quot(renewal.EXPIRY_EPOCH
                                        - renewal.CURRENT_EPOCH,
                                      SecondsPerDay)]
  /\ ScriptFrame

\* Neither form of date (line 23) can convert the end date: under set -e
\* (line 2) the failed assignment ends the script.
readExpiryFail ==
  /\ renewal.pc = "readExpiry"
  /\ renewal' = [renewal EXCEPT !.pc = "done", !.exited = TRUE,
                                !.status = 1]
  /\ ScriptFrame

\* Mutant: [ $DAYS_LEFT -le 30 ]
RenewalDue_AtMost30(days) == days <= RenewBeforeDays

\* [ $DAYS_LEFT -lt 30 ] (line 32)
RenewalDue(days) == days < RenewBeforeDays

\* if [ $DAYS_LEFT -lt 30 ]; then ... else ... fi and the end of the script
\* (lines 32-35, 59-64)
checkDaysLeft ==
  /\ renewal.pc = "checkDaysLeft"
  /\ renewal' = IF RenewalDue(renewal.DAYS_LEFT)
                  THEN [renewal EXCEPT !.pc = "certbot"]
                  ELSE [renewal EXCEPT !.pc = "done", !.exited = TRUE,
                                       !.status = 0]
  /\ ScriptFrame

\* certbot renew succeeded; nginx is reloaded, or a note is printed when it
\* cannot be; the script runs to its end (lines 37-54, 64).
certbotRenewOk(reloaded) ==
  /\ renewal.pc = "certbot"
  /\ renewal' = [renewal EXCEPT !.pc = "done", !.certbot = "ok",
                                !.nginxReloaded = reloaded,
                                !.exited = TRUE, !.status = 0]
  /\ ScriptFrame

\* certbot renew failed: exit 1 (lines 37, 55-58)
certbotRenewFail ==
  /\ renewal.pc = "certbot"
  /\ renewal' = [renewal EXCEPT !.pc = "done", !.certbot = "failed",
                                !.exited = TRUE, !.status = 1]
  /\ ScriptFrame

RenewNext ==
  \/ checkCertificate
  \/ readExpiry
  \/ readExpiryFail
  \/ checkDaysLeft
  \/ \E reloaded \in BOOLEAN : certbotRenewOk(reloaded)
  \/ certbotRenewFail

\* ---------------------------------------------------------- specifications
ApiIdle ==
  /\ localStorage = [access_token |-> 1, refresh_token |-> 1]
  /\ location = "/app"
  /\ req = [r \in Reqs |-> NewRequest]

\* The api client under concurrent requests, no wizard mounted.
Init == ApiInit /\ WizardIdle /\ PageIdle /\ ScriptIdle

Next == ApiNext

Spec == Init /\ [][Next]_vars

\* One mounted wizard and the requests it sends.
WizardInit ==
  ApiIdle /\ PageIdle /\ ScriptIdle /\ (WP_Init \/ LW_Init \/ VW_Init)

WizardNext == WP_Next \/ LW_Next \/ VW_Next

SpecWizard == WizardInit /\ [][WizardNext]_vars

\* The letters page with its filters.
LettersInit == ApiIdle /\ WizardIdle /\ PageInit /\ ScriptIdle

LettersNext == PageNext

SpecLetters == LettersInit /\ [][LettersNext]_vars

\* The writing profiles page with its delete flow.
ProfilesInit == ApiIdle /\ WizardIdle /\ ProfilesPageInit /\ ScriptIdle

SpecProfiles == ProfilesInit /\ [][ProfilesNext]_vars

\* The letters page with the status toggles and the refetches they cause.
StatusInit == ApiIdle /\ WizardIdle /\ StatusPageInit /\ ScriptIdle

SpecStatus == StatusInit /\ [][StatusNext]_vars

\* The app shell: routes, sign-in state, theme and install prompt.
RoutesInit == WizardIdle /\ PagesIdle /\ ShellInit /\ ScriptIdle

SpecRoutes == RoutesInit /\ [][ShellNext]_vars

\* Everything that touches local storage: the api client with one request
\* still to be made (the others have been answered), under Layout on a
\* phone, with the theme switch and the install prompt.
StorageInit ==
  /\ localStorage \in [access_token : Tokens, refresh_token : Tokens]
  /\ location = "/app"
  /\ req = [r \in Reqs |->
              IF r = 1 THEN NewRequest
              ELSE [NewRequest EXCEPT
                      !.phase = "resolved", !.sends = 1,
                      !.Authorization = localStorage.access_token,
                      !.statuses = <<200>>]]
  /\ WizardIdle
  /\ PagesIdle
  /\ isAuthenticated = TRUE
  /\ path = "/"
  /\ screen = InLayout("DashboardPage")
  /\ darkMode = FALSE
  /\ classDark = FALSE
  /\ device \in {d \in Devices : ~d.isStandalone /\ d.userAgent # "desktop"}
  /\ installPrompt = InstallPromptMount(localStorage, device, NoPrompt)
  /\ ScriptIdle

StorageNext == ApiNext \/ LayoutNext

SpecStorage == StorageInit /\ [][StorageNext]_vars

\* One run of the certificate renewal script.
RenewInit == ApiIdle /\ WizardIdle /\ PageIdle /\ ScriptStart

SpecRenew == RenewInit /\ [][RenewNext]_vars

\* ------------------------------------------------------------------ claims

\* Did the refresh call of request r succeed?  (r left "refreshing" other
\* than through the catch branch.)
RefreshSucceededFor(r) ==
  /\ req[r].retry
  /\ req[r].phase # "refreshing"
  /\ req[r].rejectedWith # "refreshError"

\* C1: a first 401 starts exactly one refresh call; after a successful
\* refresh the original request is re-sent exactly once; over the life of
\* one original request there is at most one refresh call and at most one
\* retry (two sends), whatever the responses are.
C1_OneRefreshOneRetry ==
  \A r \in Reqs :
    /\ req[r].refreshCalls <= 1
    /\ req[r].sends <= 2
    /\ Len(req[r].statuses) <= 2
    /\ (Len(req[r].statuses) >= 1 /\ req[r].statuses[1] = 401)
          => req[r].refreshCalls = 1
    /\ (Len(req[r].statuses) >= 1 /\ req[r].statuses[1] # 401)
          => req[r].refreshCalls = 0 /\ req[r].sends = 1
    /\ RefreshSucceededFor(r)
          => /\ req[r].phase \in {"sent", "resolved", "rejected"}
             /\ req[r].sends = 2
    /\ req[r].sends = 2 => RefreshSucceededFor(r)

\* C1 witness: a request that got 401, refreshed, was re-sent and got 401
\* again has been sent twice and refreshed once.
C1_Witness ==
  \E r \in Reqs :
    /\ req[r].statuses = <<401, 401>>
    /\ req[r].phase = "rejected"
    /\ req[r].sends = 2
    /\ req[r].refreshCalls = 1

\* C2 (as claimed): when the request re-sent after a successful refresh
\* receives 401 again, the client is at /login and both tokens are removed.
C2_Second401RedirectsAndClears ==
  \A r \in Reqs :
    (/\ req[r].statuses = <<401, 401>>
     /\ req[r].phase = "rejected")
      => /\ location = "/login"
         /\ localStorage.access_token = NULL
         /\ localStorage.refresh_token = NULL

\* C3: when the refresh call fails, that step removes both tokens, sets the
\* location to /login and rejects the original request with the refresh
\* error; the request is not re-sent and no other refresh is made for it.
C3_RefreshFailure ==
  /\ [](\A r \in Reqs :
          req[r].rejectedWith = "refreshError"
            => /\ req[r].phase = "rejected"
               /\ req[r].sends = 1
               /\ req[r].refreshCalls = 1
               /\ location = "/login")
  /\ [][\A r \in Reqs :
          (req[r].phase = "refreshing" /\ req'[r].phase = "rejected")
            => /\ localStorage'.access_token = NULL
               /\ localStorage'.refresh_token = NULL
               /\ location' = "/login"
               /\ req'[r].rejectedWith = "refreshError"
               /\ req'[r].sends = req[r].sends
               /\ req'[r].refreshCalls = req[r].refreshCalls]_vars

\* C3 witness: a request rejected with the refresh error, tokens removed.
C3_Witness ==
  \E r \in Reqs :
    /\ req[r].rejectedWith = "refreshError"
    /\ localStorage = [access_token |-> NULL, refresh_token |-> NULL]
    /\ location = "/login"

SubmitApis == {"createWritingProfile", "updateWritingProfile"}

\* C4: in the Writing Profile wizard, create or edit, Next on step 4 with
\* fewer than 3 core values sets the error and stays on step 4, and no
\* create/update request ever carries fewer than 3 core values.
C4_Min3CoreValues ==
  /\ [](\A m \in net :
          m.api \in SubmitApis => Cardinality(m.data.core_values) >= 3)
  /\ [][(/\ WP_nextStep
         /\ currentStep = 4
         /\ Cardinality(formData.core_values) < 3)
          => /\ currentStep' = 4
             /\ error' = "Please select at least 3 core values"]_vars

\* C4 witness: the edit wizard of a profile with two core values was refused
\* on step 4.
C4_Witness ==
  /\ WP_Active /\ editMode
  /\ currentStep = 4
  /\ Cardinality(formData.core_values) = 2
  /\ error = "Please select at least 3 core values"

\* C5: in the Writing Profile wizard, create or edit, Next on step 4 with
\* more than 5 core values sets the error and stays on step 4, and no
\* create/update request ever carries more than 5 core values.
C5_Max5CoreValues ==
  /\ [](\A m \in net :
          m.api \in SubmitApis => Cardinality(m.data.core_values) <= 5)
  /\ [][(/\ WP_nextStep
         /\ currentStep = 4
         /\ Cardinality(formData.core_values) > 5)
          => /\ currentStep' = 4
             /\ error' = "Please select no more than 5 core values"]_vars

\* C5 witness: the create wizard was refused on step 4 with six core values
\* selected.
C5_Witness ==
  /\ WP_Active /\ ~editMode
  /\ currentStep = 4
  /\ Cardinality(formData.core_values) > 5
  /\ error = "Please select no more than 5 core values"

NotBlank(s) == \E i \in 1..Len(s) : s[i] # " "

\* The required fields of the active step, read from the form itself.
RequiredFieldsPresent ==
  CASE wizard = "profile" ->
         (CASE currentStep = 1 -> NotBlank(formData.name)
            [] currentStep = 2 ->
                 /\ DOMAIN formData.issue_positions # {}
                 /\ \A i \in DOMAIN formData.issue_positions :
                       /\ formData.issue_positions[i].position # ""
                       /\ formData.issue_positions[i].priority # ""
            [] currentStep = 4 ->
                 Cardinality(formData.core_values) \in 3..5
            [] currentStep = 5 -> formData.preferred_tone # ""
            [] currentStep = 6 ->
                 \E f \in DOMAIN formData.argumentative_frameworks :
                    formData.argumentative_frameworks[f]
            [] currentStep = 7 ->
                 /\ formData.representative_engagement.aligned_approach # ""
                 /\ formData.representative_engagement.opposing_approach # ""
                 /\ formData.representative_engagement.bipartisan_framing # ""
            [] currentStep = 8 ->
                 aiDescriptions.loaded /\ NotBlank(selectedDescription)
            [] OTHER -> TRUE)
    [] wizard = "letter" ->
         (CASE currentStep = 1 -> formData.writingProfileId # ""
            [] currentStep = 2 -> Len(formData.recipientIds) > 0
            [] currentStep = 4 ->
                 formData.selectedTopic # "" \/ formData.customTopic # ""
            [] OTHER -> TRUE)
    [] wizard = "voice" ->
         (CASE currentStep = 1 -> NotBlank(formData.name)
            [] currentStep = 2 ->
                 \/ Len(formData.key_issues) > 0
                 \/ NotBlank(formData.custom_issues)
            [] currentStep = 3 -> formData.preferred_tone # ""
            [] currentStep = 4 -> NotBlank(selectedDescription)
            [] OTHER -> TRUE)
    [] OTHER -> TRUE

\* C6: in each of the three wizards nextStep raises the step by exactly one
\* when the validation of the active step holds, and otherwise leaves the
\* step alone and sets a non-empty error; the step never increases while a
\* required field of the active step is missing.
C6_NextAdvancesIffValid ==
  [][/\ WP_nextStep =>
          IF WP_validateCurrentStep
            THEN currentStep' = currentStep + 1
            ELSE currentStep' = currentStep /\ error' # ""
     /\ LW_nextStep =>
          IF LW_validateCurrentStep
            THEN currentStep' = currentStep + 1
            ELSE currentStep' = currentStep /\ error' # ""
     /\ VW_nextStep =>
          IF VW_validateCurrentStep
            THEN currentStep' = currentStep + 1
            ELSE currentStep' = currentStep /\ error' # ""
     /\ (WP_nextStep \/ LW_nextStep \/ VW_nextStep) =>
          (currentStep' = currentStep + 1 <=> RequiredFieldsPresent)
     /\ currentStep' > currentStep =>
          currentStep' = currentStep + 1 /\ RequiredFieldsPresent]_vars

\* C6 witness: the voice wizard went past step 1 and was refused on step 2.
C6_Witness ==
  /\ VW_Active
  /\ currentStep = 2
  /\ ~RequiredFieldsPresent
  /\ error = "Please select at least one issue or enter custom issues"

\* No request of the wizard is awaited (the buttons are not disabled).
NotBusy == ~loading /\ ~generatingLetters

\* C7 (as claimed): at every step after the first, the last one included,
\* the user can go back one step.
C7_PreviousAlwaysAllowed ==
  /\ (WP_Active /\ currentStep > 1) => ENABLED WP_prevStep
  /\ (LW_Active /\ currentStep > 1) => ENABLED LW_prevStep
  /\ (VW_Active /\ currentStep > 1) => ENABLED VW_prevStep

\* C7 (amended): at every step after the first, valid or not, the user can
\* go back exactly one step whenever the wizard awaits no request, except
\* on step 7 of the Letter wizard, which has no Previous button.
C7_PreviousAllowedWhenIdle ==
  /\ []((WP_Active /\ currentStep > 1 /\ NotBusy) => ENABLED WP_prevStep)
  /\ []((VW_Active /\ currentStep > 1 /\ NotBusy) => ENABLED VW_prevStep)
  /\ []((LW_Active /\ currentStep > 1 /\ currentStep < LW_LastStep
           /\ NotBusy) => ENABLED LW_prevStep)
  /\ []((LW_Active /\ currentStep = LW_LastStep) => ~ENABLED LW_prevStep)
  /\ [][(WP_prevStep \/ LW_prevStep \/ VW_prevStep)
          => /\ currentStep' = currentStep - 1
             /\ formData' = formData]_vars

\* C7 witness: the create wizard is back on step 3 with a single core value
\* selected: core values are toggled on step 4 only, so Previous was used
\* there while the step was invalid.
C7_Witness ==
  /\ WP_Active /\ ~editMode
  /\ currentStep = 3
  /\ Cardinality(formData.core_values) = 1
  /\ NotBusy

\* C8: when the create/update, the generate-letter or the finalize request
\* of a mounted wizard fails, the step and the form stay as they are, the
\* error is the detail of the response (after the wizard's prefix) or a
\* fallback text, the busy flag is reset, neither onSuccess nor onClose is
\* called, and the same button can be used again.
C8_SubmitFailureLeavesWizardOpen ==
  [][\A d \in Details :
       /\ (Mounted /\ \E m \in net : WP_handleSubmitFail(m, d))
            => /\ currentStep' = currentStep
               /\ formData' = formData
               /\ selectedDescription' = selectedDescription
               /\ error' = (IF d # "" THEN d
                            ELSE IF editMode THEN "Failed to update profile"
                            ELSE "Failed to create profile")
               /\ parent' = parent
               /\ (WP_Active /\ currentStep = WP_LastStep /\ ~loading)'
       /\ (Mounted /\ \E m \in net : generateLettersFail(m, d))
            => /\ currentStep' = currentStep
               /\ formData' = formData
               /\ error' = "Failed to generate letters: " \o
                             (IF d # "" THEN d ELSE ErrMessage)
               /\ parent' = parent
               /\ (LW_Rendered /\ currentStep = 6 /\ ~generatingLetters)'
       /\ (Mounted /\ \E m \in net : saveLettersFail(m, d))
            => /\ currentStep' = currentStep
               /\ formData' = formData
               /\ error' = "Failed to save letters: " \o
                             (IF d # "" THEN d ELSE ErrMessage)
               /\ parent' = parent
               /\ (LW_Rendered /\ currentStep = LW_LastStep /\ ~loading)'
    ]_vars

\* C8 witness: the Letter wizard after a failed generate-letter request
\* that carried a detail.
C8_Witness ==
  /\ LW_Active /\ currentStep = 6 /\ ~generatingLetters
  /\ error = "Failed to generate letters: backend detail"
  /\ parent = [onSuccess |-> FALSE, onClose |-> FALSE]

NewSubmissions == {m \in net' \ net : m.api \in SubmitApis}

\* C9: the Writing Profile wizard sends a create/update request only from
\* step 10; one use of the submit button sends exactly one request, the
\* update when an existing profile is edited and the create otherwise;
\* after the successful response the wizard is closed and sends nothing
\* more.
C9_OneSubmission ==
  /\ [](Cardinality({m \in net : m.api \in SubmitApis}) <= 1)
  /\ [][/\ NewSubmissions # {} => WP_handleSubmit /\ currentStep = WP_LastStep
        /\ WP_handleSubmit =>
             /\ Cardinality(NewSubmissions) = 1
             /\ \A m \in NewSubmissions :
                  m.api = IF editMode /\ existingProfile.id # NULL
                            THEN "updateWritingProfile"
                            ELSE "createWritingProfile"
        /\ (\E m \in net : WP_handleSubmitOk(m)) =>
             parent'.onSuccess /\ parent'.onClose
        /\ parent.onSuccess => net' \subseteq net]_vars

\* C9 witness: the edit wizard closed after its update succeeded.
C9_Witness ==
  /\ wizard = "profile" /\ editMode
  /\ parent = [onSuccess |-> TRUE, onClose |-> TRUE]
  /\ net = {}

\* C10: while a representative is selected in the filter, every displayed
\* letter has a recipient whose name equals the selected name character by
\* character, and the displayed letters are exactly the letters of the
\* fetched list that have one (among those passing the other filters).
C10_RepFilterExactName ==
  selectedRepFilter # ALL =>
    /\ \A i \in 1..Len(filteredLetters) :
         \E j \in 1..Len(filteredLetters[i].recipients) :
            filteredLetters[i].recipients[j].name = selectedRepFilter
    /\ \A i \in 1..Len(filteredLetters) :
         \E k \in 1..Len(letters) : letters[k] = filteredLetters[i]

\* C10 witness: with Jane Doe selected a letter is displayed while a letter
\* addressed to a longer name containing it, or to the same name in lower
\* case, is fetched but not displayed.
C10_Witness ==
  /\ selectedRepFilter = JaneDoe
  /\ Len(filteredLetters) > 0
  /\ \E k \in 1..Len(letters) :
        /\ letters[k].status = statusFilter
        /\ letters[k].recipients \in
             {<<[name |-> <<"J", "D", "e">>]>>, <<[name |-> <<"j", "d">>]>>}
        /\ \A i \in 1..Len(filteredLetters) : filteredLetters[i] # letters[k]

\* Does the fetched letter at index k pass the three filters?
PassesFilters(k) ==
  LET letter == letters[k]
      term == toLowerCase(searchTerm)
  IN /\ letter.status = statusFilter
     /\ searchTerm # <<>> =>
          \/ StrIncludes(toLowerCase(letter.subject), term)
          \/ StrIncludes(toLowerCase(letter.category), term)
          \/ \E j \in 1..Len(letter.recipients) :
                StrIncludes(toLowerCase(letter.recipients[j].name), term)
     /\ selectedRepFilter # ALL =>
          \E j \in 1..Len(letter.recipients) :
             letter.recipients[j].name = selectedRepFilter

NewPageRequests == pageNet' \ pageNet

\* Is the letter with this id displayed, and with this status?
DisplayedWithStatus(list, id, status) ==
  \E i \in 1..Len(list) : list[i].id = id /\ list[i].status = status

C13_DeleteAfterConfirmThenReload ==
  [][/\ \A n \in NewPageRequests :
          n.op = "deleteWritingProfile" =>
            /\ ~wpPage.loading
            /\ wpPage.confirmDeleteProfile # NULL
            /\ n.id = wpPage.confirmDeleteProfile
            /\ Cardinality(NewPageRequests) = 1
     /\ \A i \in 1..Len(profiles) :
          (handleDelete(i) \/ cancelDelete) => NewPageRequests = {}
     /\ \A m \in pageNet :
          deleteWritingProfileOk(m) =>
            /\ Cardinality(NewPageRequests) = 1
            /\ \A n \in NewPageRequests :
                  n.op = "getWritingProfiles" /\ n.id = m.id
            /\ ~HasProfile(profileStore', m.id)
     /\ \A m \in pageNet :
          (m.for = "delete" /\ getWritingProfilesOk(m)) =>
            /\ ~HasProfile(profiles', m.id)
            /\ ~wpPage'.loading]_vars

\* C13 witness: profile 1 was displayed, its deletion was confirmed and
\* the reload is done: the list is shown without it.
C13_Witness ==
  /\ wpPage.success = "Writing profile deleted successfully"
  /\ ~wpPage.loading
  /\ pageNet = {}
  /\ profiles = <<[id |-> 2]>>
  /\ wpPage.sent = 1

\* C14: after a successful generation for the N representatives of the
\* request the wizard holds N generated letters, the i-th made from the
\* i-th recipient record of the returned letter: its id and name, and its
\* personalized subject and content, the letter's subject and base content
\* standing in only where the record has none.
C14_OneEntryPerRecipient ==
  [][\A m \in {n \in net : n.api = "generateLetter"} :
       \A l \in LetterResponses(m.recipient_ids) :
         (Mounted /\ generateLettersOk(m, l)) =>
           LET g == formData'.generatedLetters
           IN /\ Len(g) = Len(m.recipient_ids)
              /\ Len(g) = Len(formData'.recipientIds)
              /\ \A i \in 1..Len(g) :
                   LET r == l.recipients[i]
                   IN /\ g[i].id = r.id
                      /\ g[i].letter_id = l.id
                      /\ g[i].recipient_name = r.name
                      /\ g[i].subject =
                           (IF r.personalized_subject = ""
                              THEN l.subject ELSE r.personalized_subject)
                      /\ g[i].content =
                           (IF r.personalized_content = ""
                              THEN l.base_content
                              ELSE r.personalized_content)]_vars

\* C14 witness: two representatives, the first with personalized text and
\* the second with the letter's own.
C14_Witness ==
  /\ LW_Active /\ currentStep = LW_LastStep
  /\ Len(formData.recipientIds) = 2
  /\ Len(formData.generatedLetters) = 2
  /\ formData.generatedLetters[1].content = "B-" \o formData.recipientIds[1]
  /\ formData.generatedLetters[2].content = "B"

\* The keys a step writes: those it adds and those whose value it changes.
WrittenKeys ==
  {k \in DOMAIN localStorage' :
     k \notin DOMAIN localStorage \/ localStorage'[k] # localStorage[k]}

\* C15 as stated: no step of the frontend writes a local-storage key other
\* than access_token, refresh_token and darkMode.
C15_OnlyTokensAndDarkMode ==
  [][WrittenKeys \subseteq {"access_token", "refresh_token", "darkMode"}]_vars

\* C15: no step of the frontend writes a local-storage key other than
\* access_token, refresh_token, darkMode and installPromptDismissed.
C15_OnlyFourKeys ==
  [][WrittenKeys \subseteq {"access_token", "refresh_token", "darkMode",
                            "installPromptDismissed"}]_vars

\* C15 witness: the token refresh, the theme switch and the install prompt
\* have each written their key.
C15_Witness ==
  /\ \E r \in Reqs : req[r].refreshCalls > 0 /\ req[r].phase = "resolved"
  /\ "darkMode" \in DOMAIN localStorage
  /\ "installPromptDismissed" \in DOMAIN localStorage

\* C16: while isAuthenticated is false every protected route renders the
\* redirect to /login and not its page; the public routes render their
\* page whether or not the user is signed in.
C16_ProtectedRoutesRedirect ==
  /\ (~isAuthenticated /\ path \in ProtectedPaths)
        => /\ screen.element = "Navigate"
           /\ screen.to = "/login"
           /\ ~screen.layout
  /\ path = "/login" => screen.element = "LoginPage"
  /\ path = "/register" => screen.element = "RegisterPage"
  /\ path = "/terms" => screen.element = "TermsOfServicePage"
  /\ path = "/privacy" => screen.element = "PrivacyPolicyPage"

\* C16 witness: the session was lost while Layout was on screen with the
\* install dialog open; the letter's delivery route now renders the redirect.
C16_Witness ==
  /\ ~isAuthenticated
  /\ path \in {"/letters/" \o id \o "/delivery" : id \in LetterIds}
  /\ screen = Navigate("/login")
  /\ installPrompt.userChoice = "stale"

\* C17: requests are not coordinated.  A first 401 for a request starts
\* that request's own refresh call, also while another request's refresh
\* call is in flight or has already stored new tokens, and touches no
\* other request; a successful refresh re-sends only its own request,
\* once.
C17_OneRefreshPerRequest ==
  [][\A r \in Reqs :
       /\ (/\ req[r].phase = "sent" /\ ~req[r].retry
            /\ req'[r].statuses = Append(req[r].statuses, 401))
             => /\ req'[r].phase = "refreshing"
                /\ req'[r].refreshCalls = req[r].refreshCalls + 1
                /\ \A q \in Reqs \ {r} : req'[q] = req[q]
       /\ (req[r].phase = "refreshing" /\ req'[r].phase # "rejected"
            /\ req'[r] # req[r])
             => /\ req'[r].phase = "sent"
                /\ req'[r].sends = req[r].sends + 1
                /\ req'[r].refreshCalls = req[r].refreshCalls
                /\ \A q \in Reqs \ {r} : req'[q] = req[q]]_vars

\* C17 witness: two requests in flight were both answered 401; two refresh
\* calls, one for each, are in flight at the same time.
C17_Witness ==
  \A r \in {1, 2} :
    /\ req[r].phase = "refreshing"
    /\ req[r].statuses = <<401>>
    /\ req[r].refreshCalls = 1
    /\ req[r].sends = 1

\* C18: every generate-letter request the Letter wizard sends carries the
\* selected writing profile id, the selected recipient ids, at least one,
\* and as topic the custom topic if that is non-empty, else the selected
\* suggested topic; none of the three is empty, whatever moves and edits
\* came before.
C18_GenerateSendsRequiredFields ==
  [][\A m \in net' \ net :
       m.api = "generateLetter" =>
         /\ m.writing_profile_id = formData.writingProfileId
         /\ m.writing_profile_id # ""
         /\ m.recipient_ids = formData.recipientIds
         /\ Len(m.recipient_ids) >= 1
         /\ m.topic = (IF formData.customTopic # ""
                         THEN formData.customTopic
                         ELSE formData.selectedTopic)
         /\ m.topic # ""]_vars

\* C18 witness: a generate-letter request in flight for two recipients with
\* the suggested topic chosen in the select.
C18_Witness ==
  /\ wizard = "letter" /\ currentStep = 6 /\ generatingLetters
  /\ \E m \in net :
       /\ m.api = "generateLetter"
       /\ m.topic = "suggested"
       /\ Len(m.recipient_ids) = 2
  /\ formData.customTopic = ""

\* C19: the Letter wizard enters step 7 only in the step in which a
\* generate-letter request sent from step 6 succeeds; the generated letters
\* then carry the id of the returned letter and do not change while the
\* wizard is at step 7; a finalize request is sent only from step 7 and
\* with that letter id.
C19_FinalizeAfterGeneration ==
  [][wizard = "letter" =>
       /\ (currentStep' = 7 /\ currentStep # 7)
             => /\ currentStep = 6
                /\ \E m \in {n \in net : n.api = "generateLetter"} :
                     \E l \in LetterResponses(m.recipient_ids) :
                       generateLettersOk(m, l)
       /\ \A m \in {n \in net : n.api = "generateLetter"} :
            \A l \in LetterResponses(m.recipient_ids) :
              (Mounted /\ generateLettersOk(m, l))
                => /\ currentStep' = 7
                   /\ \A i \in 1..Len(formData'.generatedLetters) :
                        formData'.generatedLetters[i].letter_id = l.id
       /\ (currentStep = 7 /\ currentStep' = 7)
             => formData'.generatedLetters = formData.generatedLetters
       /\ \A m \in net' \ net :
            m.api = "finalizeLetter"
              => /\ currentStep = 7
                 /\ Len(formData.generatedLetters) >= 1
                 /\ m.id = formData.generatedLetters[1].letter_id]_vars

\* C19 witness: at step 7 a finalize request for the second possible
\* letter id is in flight.
C19_Witness ==
  /\ wizard = "letter" /\ currentStep = 7 /\ loading
  /\ [api |-> "finalizeLetter", id |-> "L2"] \in net
  /\ formData.generatedLetters[1].letter_id = "L2"

\* C20: the Writing Profile wizard, in create and in edit mode, is at step
\* 9 or 10 only with descriptions generated in this wizard instance and a
\* non-blank description selected; the descriptions are set by a successful
\* generate-description response and by nothing else while the wizard is
\* open, and from step 8 without them the wizard does not advance,
\* whatever description the edited profile brought along.
C20_DescriptionsBeforeStep9 ==
  /\ [](wizard = "profile" /\ currentStep \in {9, 10}
          => aiDescriptions.loaded /\ NotBlank(selectedDescription))
  /\ [][(wizard = "profile" /\ ~parent'.onClose) =>
          /\ aiDescriptions' # aiDescriptions
                => \E m \in net, d \in DescriptionResponses :
                      WP_generateDescriptionsOk(m, d)
          /\ (currentStep = 8 /\ ~aiDescriptions.loaded)
                => currentStep' <= 8]_vars

\* C20 witness: an edited profile at the last step; the generated
\* descriptions had no balanced variant, so the description the profile
\* brought along is still the selected one.
C20_Witness ==
  /\ wizard = "profile" /\ editMode
  /\ currentStep = 10
  /\ aiDescriptions.loaded /\ aiDescriptions.balanced = <<>>
  /\ selectedDescription = existingProfile.description

\* C21: every create or update request the Writing Profile wizard sends
\* carries data for which all required-field conditions of steps 1-8 hold
\* together: non-blank name, at least one issue and each with position and
\* priority, three to five core values, a tone, a framework set to true,
\* the three engagement options and a non-blank description.
C21_SubmittedDataValid ==
  [][\A m \in net' \ net :
       (wizard = "profile" /\ m.api \in SubmitApis) =>
         /\ NotBlank(m.data.name)
         /\ DOMAIN m.data.issue_positions # {}
         /\ \A i \in DOMAIN m.data.issue_positions :
               /\ m.data.issue_positions[i].position # ""
               /\ m.data.issue_positions[i].priority # ""
         /\ Cardinality(m.data.core_values) >= 3
         /\ Cardinality(m.data.core_values) <= 5
         /\ m.data.preferred_tone # ""
         /\ \E f \in DOMAIN m.data.argumentative_frameworks :
               m.data.argumentative_frameworks[f]
         /\ m.data.representative_engagement.aligned_approach # ""
         /\ m.data.representative_engagement.opposing_approach # ""
         /\ m.data.representative_engagement.bipartisan_framing # ""
         /\ NotBlank(m.description)
         /\ m.data = formData
         /\ m.description = selectedDescription]_vars

\* C21 witness: an update request in flight for a profile whose stored
\* core values were too many or too few; five are sent.
C21_Witness ==
  /\ wizard = "profile" /\ editMode /\ loading
  /\ Cardinality(existingProfile.core_values) \notin 3..5
  /\ \E m \in net :
       /\ m.api = "updateWritingProfile"
       /\ Cardinality(m.data.core_values) = 5

\* C22: while a wizard is open its step stays within 1..N, N being 10 for
\* the Writing Profile wizard, 7 for the Letter wizard and 6 for the Voice
\* Profile wizard, and no step of the wizard moves it by more than one.
C22_StepWithinRangeByOne ==
  /\ [](Mounted =>
          /\ wizard = "profile" => currentStep \in 1..10
          /\ wizard = "letter" => currentStep \in 1..7
          /\ wizard = "voice" => currentStep \in 1..6)
  /\ [][(wizard # "none" /\ ~parent'.onClose) =>
          \/ currentStep' = currentStep
          \/ currentStep' = currentStep + 1
          \/ currentStep' = currentStep - 1]_vars

\* C22 witness: the Voice Profile wizard on its last step with generated
\* descriptions, where only Previous can move it.
C22_Witness ==
  /\ wizard = "voice" /\ Mounted
  /\ currentStep = 6
  /\ aiDescriptions.loaded
  /\ ~ENABLED VW_nextStep
  /\ ENABLED VW_prevStep

\* C23: a successful token refresh stores the returned access token under
\* access_token, and the request it re-sends goes on the wire carrying that
\* token in its Authorization header; refresh_token is replaced by the
\* returned refresh token if the response has one and is left as it was if
\* not.  No other key and no other request changes in that step.
C23_RefreshStoresAndResends ==
  [][\A r \in Reqs, at \in Tokens, nrt \in Tokens \cup {NULL} :
       refreshSucceeded(r, at, nrt) =>
         /\ localStorage'.access_token = at
         /\ req'[r].phase = "sent"
         /\ req'[r].sends = req[r].sends + 1
         /\ req'[r].Authorization = at
         /\ req'[r].Authorization = localStorage'.access_token
         /\ nrt # NULL => localStorage'.refresh_token = nrt
         /\ nrt = NULL =>
               localStorage'.refresh_token = localStorage.refresh_token
         /\ \A q \in Reqs \ {r} : req'[q] = req[q]]_vars

\* C23 witness: a request first sent with token 1 was re-sent after a
\* refresh that returned token 2 and no refresh token: it carries token 2,
\* access_token is 2 and refresh_token still has its earlier value 1.
C23_Witness ==
  \E r \in Reqs :
    /\ req[r].phase = "sent" /\ req[r].retry
    /\ req[r].statuses = <<401>>
    /\ req[r].sends = 2
    /\ req[r].Authorization = 2
    /\ localStorage.access_token = 2
    /\ localStorage.refresh_token = 1

\* The theme store's flag, the value read from the darkMode key and the
\* 'dark' class of the document element agree.
ThemeAgrees ==
  /\ darkMode = getItemIsTrue(localStorage, "darkMode")
  /\ classDark = darkMode

\* C24: initializeDarkMode (run when Layout mounts) and every
\* toggleDarkMode leave the store's flag, the stored darkMode value and the
\* 'dark' class in agreement, and no later step breaks the agreement; a
\* toggleDarkMode flips each of the three, so that a second toggle brings
\* each back.
C24_ThemeInSync ==
  /\ [][((~screen.layout /\ screen'.layout) \/ toggleDarkMode)
          => ThemeAgrees']_vars
  /\ [][ThemeAgrees => ThemeAgrees']_vars
  /\ [][toggleDarkMode =>
          /\ darkMode' = ~darkMode
          /\ classDark' = ~classDark
          /\ getItemIsTrue(localStorage', "darkMode")
                = ~getItemIsTrue(localStorage, "darkMode")]_vars

\* C24 witness: dark mode was switched on and off again; the key holds
\* 'false', the flag is off and the class is absent.
C24_Witness ==
  /\ LayoutMounted
  /\ "darkMode" \in DOMAIN localStorage
  /\ localStorage["darkMode"] = "false"
  /\ ~darkMode
  /\ ~classDark

NoDuplicates(seq) ==
  \A i, j \in 1..Len(seq) : seq[i] = seq[j] => i = j

\* C26: the open Letter wizard's article URL list never holds an entry twice
\* and holds only texts that the URL parser accepts with protocol http: or
\* https:; an add of a text that is blank, unparsable, of another protocol
\* or already in the list leaves the list as it is, any other add appends
\* the trimmed text; a removal takes out exactly the entry at its index.
C26_ArticleUrlsValidAndDistinct ==
  /\ []((wizard = "letter" /\ Mounted) =>
          /\ NoDuplicates(formData.articleUrls)
          /\ \A i \in 1..Len(formData.articleUrls) :
                URLProtocol(formData.articleUrls[i]) \in {"http:", "https:"})
  /\ [][\A u \in TypedUrls :
          addArticleUrl(u) =>
            LET old == formData.articleUrls
                rejected == \/ \A i \in 1..Len(u) : u[i] = " "
                            \/ URLProtocol(u) \notin {"http:", "https:"}
                            \/ \E i \in 1..Len(old) : old[i] = Trim(u)
            IN formData'.articleUrls =
                 IF rejected THEN old ELSE Append(old, Trim(u))]_vars
  /\ [][\A index \in 1..2 :
          removeArticleUrl(index) =>
            LET old == formData.articleUrls
                new == formData'.articleUrls
            IN /\ Len(new) = Len(old) - 1
               /\ \A i \in 1..Len(new) :
                     new[i] = IF i < index THEN old[i] ELSE old[i + 1]]_vars

\* C26 witness: two URLs are in the list, the second typed with an
\* upper-case scheme, and the last add was refused as a duplicate.
C26_Witness ==
  /\ wizard = "letter" /\ currentStep = 3
  /\ formData.articleUrls = << <<"http", ":", "//", "a">>,
                               <<"HTTPS", ":", "//", "b">> >>
  /\ error = "This URL has already been added"

\* C27: in the open Letter wizard selectedTopic and customTopic are never
\* both non-empty; choosing a topic in the select sets selectedTopic and
\* empties customTopic, typing into the custom input sets customTopic and
\* empties selectedTopic, nothing else changes either; so the topic a
\* generate request carries, customTopic || selectedTopic, is the one
\* non-empty value, the one set last.
C27_OneTopicAtATime ==
  /\ []((wizard = "letter" /\ Mounted) =>
          ~(formData.selectedTopic # "" /\ formData.customTopic # ""))
  /\ [][\A t \in {"", "suggested", "topic"} :
          /\ LW_selectTopic(t) =>
                formData'.selectedTopic = t /\ formData'.customTopic = ""
          /\ LW_typeCustomTopic(t) =>
                formData'.customTopic = t /\ formData'.selectedTopic = ""]_vars
  /\ [][(/\ wizard = "letter" /\ Mounted /\ ~parent'.onClose
          /\ \/ formData'.selectedTopic # formData.selectedTopic
             \/ formData'.customTopic # formData.customTopic)
          => \E t \in {"", "suggested", "topic"} :
               LW_selectTopic(t) \/ LW_typeCustomTopic(t)]_vars
  /\ [][\A m \in net' \ net :
          m.api = "generateLetter" =>
            /\ m.topic # ""
            /\ \/ m.topic = formData.customTopic
                    /\ formData.selectedTopic = ""
               \/ m.topic = formData.selectedTopic
                    /\ formData.customTopic = ""]_vars

\* C27 witness: suggestions were on offer, the user typed a custom topic,
\* and the generate request in flight carries the custom topic.
C27_Witness ==
  /\ wizard = "letter" /\ Mounted
  /\ Len(formData.suggestedTopics) > 0
  /\ formData.customTopic = "topic"
  /\ formData.selectedTopic = ""
  /\ \E m \in net : m.api = "generateLetter" /\ m.topic = "topic"

\* C28 (as claimed): every create or update request of the Writing Profile
\* wizard carries as description one of the variants, formal, passionate or
\* balanced, of the latest successful generate-description response.
C28_SubmitsLatestVariant ==
  [][\A m \in net' \ net :
       (wizard = "profile" /\ m.api \in SubmitApis) =>
         /\ aiDescriptions.loaded
         /\ m.description # <<>>
         /\ m.description \in {aiDescriptions.formal,
                                aiDescriptions.passionate,
                                aiDescriptions.balanced}]_vars

\* C29 (as claimed): while the status update of a letter is in flight the
\* page holds that letter's toggle disabled (togglingStatus is its id), and
\* no status update is started for a letter that has one in flight.
C29_NoSecondUpdateInFlight ==
  /\ [](\A m \in pageNet :
          m.op = "updateLetterStatus" => page.togglingStatus = m.id)
  /\ [][\A m \in pageNet' \ pageNet :
          m.op = "updateLetterStatus" =>
            ~\E n \in pageNet :
                n.op = "updateLetterStatus" /\ n.id = m.id]_vars

\* C30 (as claimed): with both tokens stored at the start, local storage
\* never holds an access_token without a refresh_token, however the 401
\* handling of concurrent requests interleaves.
C30_NoAccessTokenWithoutRefreshToken ==
  localStorage.access_token # NULL => localStorage.refresh_token # NULL

====
